---- MODULE Spec2Model ----
(***************************************************************************)
(* Model of the VKR formatter: the content detector, the document scan     *)
(* state, the pattern-based and the style-based paragraph classifier, the  *)
(* paragraph formatter and the paragraph pass of the orchestrator.         *)
(*                                                                         *)
(* Text is a sequence of Unicode code points (naturals), so that the       *)
(* regular expressions, upper(), strip(), split() and the substring tests  *)
(* of the source are computed on the characters as the source does.        *)
(* Lengths are EMU integers as in the document library: Pt(n) = n*12700,   *)
(* Cm(x) = int(x*360000); centimetre settings are kept in hundredths.      *)
(***************************************************************************)
EXTENDS Integers, Sequences, FiniteSets, TLC

(***************************************************************************)
(* Characters                                                              *)
(***************************************************************************)
DIGIT == 48..57
LAT_UP == 65..90
LAT_LO == 97..122
\* [A-YA] is 1040..1071 and IO is 1025; [a-ya] is 1072..1103 and io is 1105.
\* RU_UP is the class [A-YA IO] and RU_LO the class [a-ya io] of the patterns.
RU_UP == (1040..1071) \cup {1025}
RU_LO == (1072..1103) \cup {1105}
\* \s of a str pattern: the characters for which str.isspace() holds
WS == {9, 10, 11, 12, 13, 28, 29, 30, 31, 32, 133, 160}
\* '.' of a pattern matches everything but the newline
DOT == (0..9000) \ {10}
\* \w: letters, digits and the underscore
WORDCH == DIGIT \cup LAT_UP \cup LAT_LO \cup RU_UP \cup RU_LO \cup {95}

IsUpperCh(c) == c \in LAT_UP \/ c \in RU_UP
IsLowerCh(c) == c \in LAT_LO \/ c \in RU_LO
\* str.isalpha() of one character
IsAlphaCh(c) == IsUpperCh(c) \/ IsLowerCh(c)

\* str.upper() / str.lower() of one character
UpperCh(c) == IF c = 1105 THEN 1025
              ELSE IF c \in LAT_LO \/ c \in RU_LO THEN c - 32 ELSE c
LowerCh(c) == IF c = 1025 THEN 1105
              ELSE IF c \in LAT_UP \/ c \in RU_UP THEN c + 32 ELSE c

(***************************************************************************)
(* Strings                                                                 *)
(***************************************************************************)
Upper(s) == [i \in 1..Len(s) |-> UpperCh(s[i])]
Lower(s) == [i \in 1..Len(s) |-> LowerCh(s[i])]

\* str.strip(): drop leading and trailing whitespace
Strip(s) ==
  LET keep == {i \in 1..Len(s) : s[i] \notin WS}
  IN  IF keep = {} THEN <<>>
      ELSE LET lo == CHOOSE i \in keep : \A j \in keep : i <= j
               hi == CHOOSE i \in keep : \A j \in keep : j <= i
           IN  SubSeq(s, lo, hi)

\* needle in hay
Contains(hay, needle) ==
  \E i \in 1..(Len(hay) - Len(needle) + 1) :
     \A k \in 1..Len(needle) : hay[i + k - 1] = needle[k]

\* len(text.split()): the number of maximal runs of non-whitespace
WordStarts(s) == {i \in 1..Len(s) : s[i] \notin WS /\ (i = 1 \/ s[i - 1] \in WS)}
WordCount(s) == Cardinality(WordStarts(s))

\* text.split()[-1]
LastWord(s) ==
  LET st == CHOOSE i \in WordStarts(s) : \A j \in WordStarts(s) : j <= i
      en == CHOOSE i \in st..Len(s) :
              /\ \A j \in st..i : s[j] \notin WS
              /\ (i = Len(s) \/ s[i + 1] \in WS)
  IN  SubSeq(s, st, en)

\* int(w) does not raise: an optional sign, then digits that single
\* underscores may separate
IsIntLiteral(w) ==
  LET b == IF Len(w) > 0 /\ w[1] \in {43, 45} THEN 2 ELSE 1
  IN  /\ Len(w) >= b
      /\ w[b] \in DIGIT
      /\ w[Len(w)] \in DIGIT
      /\ \A i \in b..Len(w) : w[i] \in DIGIT \/ (w[i] = 95 /\ w[i - 1] \in DIGIT)

\* the alphabetic characters of a text and the upper-case ones among them
AlphaCount(s) == Cardinality({i \in 1..Len(s) : IsAlphaCh(s[i])})
UpperCount(s) == Cardinality({i \in 1..Len(s) : IsUpperCh(s[i])})

(***************************************************************************)
(* Regular expressions.  A pattern is a sequence of items; an item is a    *)
(* character class with a repetition range, or the word boundary \b.  bol  *)
(* and eol are the anchors ^ and $.  Only the existence of a match is      *)
(* used by the source, so matching computes the set of end positions.      *)
(***************************************************************************)
\* hi = -1 stands for an unbounded repetition
One(cs) == [cs |-> cs, lo |-> 1, hi |-> 1, wb |-> FALSE]
Plus(cs) == [cs |-> cs, lo |-> 1, hi |-> 0 - 1, wb |-> FALSE]
Star(cs) == [cs |-> cs, lo |-> 0, hi |-> 0 - 1, wb |-> FALSE]
Opt(cs) == [cs |-> cs, lo |-> 0, hi |-> 1, wb |-> FALSE]
AtLeast(n, cs) == [cs |-> cs, lo |-> n, hi |-> 0 - 1, wb |-> FALSE]
WordB == [cs |-> {}, lo |-> 0, hi |-> 0, wb |-> TRUE]
Lit(s) == [i \in 1..Len(s) |-> One({s[i]})]
Re(bol, items, eol) == [bol |-> bol, items |-> items, eol |-> eol]

\* a character is in a class, with or without re.IGNORECASE
InClass(c, cs, ic) == c \in cs \/ (ic /\ (UpperCh(c) \in cs \/ LowerCh(c) \in cs))

\* the number of consecutive characters of the class from position i
RECURSIVE RunLen(_, _, _, _)
RunLen(s, i, cs, ic) ==
  IF i <= Len(s) /\ InClass(s[i], cs, ic) THEN 1 + RunLen(s, i + 1, cs, ic) ELSE 0

IsWordCh(s, i) == i >= 1 /\ i <= Len(s) /\ s[i] \in WORDCH
AtWordBoundary(s, i) == IsWordCh(s, i - 1) # IsWordCh(s, i)

\* $ matches at the end and before a trailing newline
AtEol(s, i) == i = Len(s) + 1 \/ (i = Len(s) /\ s[i] = 10)

Min(a, b) == IF a < b THEN a ELSE b

\* the positions after a match of items k.. that starts at position i
RECURSIVE EndsFrom(_, _, _, _, _)
EndsFrom(items, k, s, i, ic) ==
  IF k > Len(items) THEN {i}
  ELSE LET e == items[k] IN
       IF e.wb
       THEN IF AtWordBoundary(s, i) THEN EndsFrom(items, k + 1, s, i, ic) ELSE {}
       ELSE LET n0 == RunLen(s, i, e.cs, ic)
                r == IF e.hi < 0 THEN n0 ELSE Min(n0, e.hi)
            IN  UNION {EndsFrom(items, k + 1, s, i + n, ic) : n \in e.lo..r}

MatchAt(p, s, i, ic) ==
  \E j \in EndsFrom(p.items, 1, s, i, ic) : p.eol => AtEol(s, j)

\* re.match(p, s) and re.search(p, s) as booleans
ReMatch(p, s) == MatchAt(p, s, 1, FALSE)
ReSearchIC(p, s, ic) ==
  IF p.bol THEN MatchAt(p, s, 1, ic)
  ELSE \E i \in 1..(Len(s) + 1) : MatchAt(p, s, i, ic)
ReSearch(p, s) == ReSearchIC(p, s, FALSE)

AnyMatch(ps, s) == \E k \in 1..Len(ps) : ReMatch(ps[k], s)
AnySearch(ps, s) == \E k \in 1..Len(ps) : ReSearch(ps[k], s)
AnySearchIC(ps, s) == \E k \in 1..Len(ps) : ReSearchIC(ps[k], s, TRUE)
AnyContains(hay, needles) == \E k \in 1..Len(needles) : Contains(hay, needles[k])


(***************************************************************************)
(* FormattingConstants, the keyword lists of the detector and of the       *)
(* requirements, and the style aliases of the style-based classifier.      *)
(* The comments give the strings in Latin transliteration.                 *)
(***************************************************************************)
CONTENT_HEADERS ==
  << <<1057, 1054, 1044, 1045, 1056, 1046, 1040, 1053, 1048, 1045>>,  \* "SODERZHANIE"
     <<1054, 1043, 1051, 1040, 1042, 1051, 1045, 1053, 1048, 1045>>,  \* "OGLAVLENIE"
     <<67, 79, 78, 84, 69, 78, 84, 83>>,  \* "CONTENTS"
     <<84, 65, 66, 76, 69, 32, 79, 70, 32, 67, 79, 78, 84, 69, 78, 84, 83>> >>  \* "TABLE OF CONTENTS"
MAIN_CONTENT_MARKERS ==
  << <<1042, 1042, 1045, 1044, 1045, 1053, 1048, 1045>>,  \* "VVEDENIE"
     <<1043, 1051, 1040, 1042, 1040, 32, 49>>,  \* "GLAVA 1"
     <<49, 46, 32, 1042, 1042, 1045, 1044, 1045, 1053, 1048, 1045>>,  \* "1. VVEDENIE"
     <<49, 32, 1042, 1042, 1045, 1044, 1045, 1053, 1048, 1045>>,  \* "1 VVEDENIE"
     <<67, 72, 65, 80, 84, 69, 82, 32, 49>>,  \* "CHAPTER 1"
     <<1056, 1045, 1060, 1045, 1056, 1040, 1058>>,  \* "REFERAT"
     <<65, 66, 83, 84, 82, 65, 67, 84>>,  \* "ABSTRACT"
     <<1040, 1053, 1053, 1054, 1058, 1040, 1062, 1048, 1071>> >>  \* "ANNOTACIYA"
TITLE_PAGE_MARKERS ==
  << <<1044, 1048, 1055, 1051, 1054, 1052, 1053, 1040, 1071, 32, 1056, 1040, 1041, 1054, 1058, 1040>>,  \* "DIPLOMNAYA RABOTA"
     <<1042, 1067, 1055, 1059, 1057, 1050, 1053, 1040, 1071, 32, 1050, 1042, 1040, 1051, 1048, 1060, 1048, 1050, 1040, 1062, 1048, 1054, 1053, 1053, 1040, 1071, 32, 1056, 1040, 1041, 1054, 1058, 1040>>,  \* "VYPUSKNAYA KVALIFIKACIONNAYA RABOTA"
     <<1052, 1048, 1053, 1048, 1057, 1058, 1045, 1056, 1057, 1058, 1042, 1054, 32, 1054, 1041, 1056, 1040, 1047, 1054, 1042, 1040, 1053, 1048, 1071>>,  \* "MINISTERSTVO OBRAZOVANIYA"
     <<1052, 1048, 1053, 1048, 1057, 1058, 1045, 1056, 1057, 1058, 1042, 1054, 32, 1053, 1040, 1059, 1050, 1048>>,  \* "MINISTERSTVO NAUKI"
     <<1060, 1045, 1044, 1045, 1056, 1040, 1051, 1068, 1053, 1054, 1045, 32, 1043, 1054, 1057, 1059, 1044, 1040, 1056, 1057, 1058, 1042, 1045, 1053, 1053, 1054, 1045>>,  \* "FEDERAL'NOE GOSUDARSTVENNOE"
     <<1054, 1041, 1056, 1040, 1047, 1054, 1042, 1040, 1058, 1045, 1051, 1068, 1053, 1054, 1045, 32, 1059, 1063, 1056, 1045, 1046, 1044, 1045, 1053, 1048, 1045>>,  \* "OBRAZOVATEL'NOE UCHREZHDENIE"
     <<1042, 1067, 1057, 1064, 1045, 1043, 1054, 32, 1054, 1041, 1056, 1040, 1047, 1054, 1042, 1040, 1053, 1048, 1071>>,  \* "VYSSHEGO OBRAZOVANIYA"
     <<1050, 1040, 1060, 1045, 1044, 1056, 1040>>,  \* "KAFEDRA"
     <<1053, 1040, 1055, 1056, 1040, 1042, 1051, 1045, 1053, 1048, 1045, 32, 1055, 1054, 1044, 1043, 1054, 1058, 1054, 1042, 1050, 1048>>,  \* "NAPRAVLENIE PODGOTOVKI"
     <<1055, 1056, 1054, 1060, 1048, 1051, 1068>>,  \* "PROFIL'"
     <<1058, 1045, 1052, 1040, 58>>,  \* "TEMA:"
     <<1042, 1067, 1055, 1054, 1051, 1053, 1048, 1051, 58>>,  \* "VYPOLNIL:"
     <<1057, 1058, 1059, 1044, 1045, 1053, 1058>>,  \* "STUDENT"
     <<1043, 1056, 1059, 1055, 1055, 1067>>,  \* "GRUPPY"
     <<1053, 1040, 1059, 1063, 1053, 1067, 1049, 32, 1056, 1059, 1050, 1054, 1042, 1054, 1044, 1048, 1058, 1045, 1051, 1068>>,  \* "NAUCHNYJ RUKOVODITEL'"
     <<1050, 1054, 1053, 1057, 1059, 1051, 1068, 1058, 1040, 1053, 1058>>,  \* "KONSUL'TANT"
     <<1044, 1054, 1055, 1059, 1065, 1045, 1053, 32, 1050, 32, 1047, 1040, 1065, 1048, 1058, 1045>>,  \* "DOPUSCHEN K ZASCHITE"
     <<1056, 1040, 1041, 1054, 1058, 1040, 32, 1042, 1067, 1055, 1054, 1051, 1053, 1045, 1053, 1040>>,  \* "RABOTA VYPOLNENA"
     <<1054, 1062, 1045, 1053, 1050, 1040>>,  \* "OCENKA"
     <<1055, 1054, 1044, 1055, 1048, 1057, 1068>> >>  \* "PODPIS'"
SERVICE_MARKERS ==
  << <<1047, 1040, 1044, 1040, 1053, 1048, 1045, 32, 1053, 1040>>,  \* "ZADANIE NA"
     <<1050, 1040, 1051, 1045, 1053, 1044, 1040, 1056, 1053, 1067, 1049, 32, 1055, 1051, 1040, 1053>>,  \* "KALENDARNYJ PLAN"
     <<1050, 1040, 1051, 1045, 1053, 1044, 1040, 1056, 1053, 1054, 45, 1058, 1045, 1052, 1040, 1058, 1048, 1063, 1045, 1057, 1050, 1048, 1049>>,  \* "KALENDARNO-TEMATICHESKIJ"
     <<1058, 1045, 1061, 1053, 1048, 1063, 1045, 1057, 1050, 1054, 1045, 32, 1047, 1040, 1044, 1040, 1053, 1048, 1045>>,  \* "TEHNICHESKOE ZADANIE"
     <<1059, 1058, 1042, 1045, 1056, 1046, 1044, 1040, 1070>>,  \* "UTVERZHDAYU"
     <<1056, 1040, 1057, 1057, 1052, 1054, 1058, 1056, 1045, 1053, 1054>>,  \* "RASSMOTRENO"
     <<1057, 1054, 1043, 1051, 1040, 1057, 1054, 1042, 1040, 1053, 1054>>,  \* "SOGLASOVANO"
     <<1054, 1058, 1047, 1067, 1042>>,  \* "OTZYV"
     <<1056, 1045, 1062, 1045, 1053, 1047, 1048, 1071>>,  \* "RECENZIYA"
     <<1057, 1055, 1056, 1040, 1042, 1050, 1040, 32, 1054, 32, 1042, 1053, 1045, 1044, 1056, 1045, 1053, 1048, 1048>>,  \* "SPRAVKA O VNEDRENII"
     <<1040, 1050, 1058, 32, 1054, 32, 1042, 1053, 1045, 1044, 1056, 1045, 1053, 1048, 1048>> >>  \* "AKT O VNEDRENII"
references_keywords ==
  << <<1057, 1055, 1048, 1057, 1054, 1050, 32, 1048, 1057, 1055, 1054, 1051, 1068, 1047, 1054, 1042, 1040, 1053, 1053, 1067, 1061, 32, 1048, 1057, 1058, 1054, 1063, 1053, 1048, 1050, 1054, 1042>>,  \* "SPISOK ISPOL'ZOVANNYH ISTOCHNIKOV"
     <<1057, 1055, 1048, 1057, 1054, 1050, 32, 1051, 1048, 1058, 1045, 1056, 1040, 1058, 1059, 1056, 1067>>,  \* "SPISOK LITERATURY"
     <<1041, 1048, 1041, 1051, 1048, 1054, 1043, 1056, 1040, 1060, 1048, 1063, 1045, 1057, 1050, 1048, 1049, 32, 1057, 1055, 1048, 1057, 1054, 1050>>,  \* "BIBLIOGRAFICHESKIJ SPISOK"
     <<82, 69, 70, 69, 82, 69, 78, 67, 69, 83>>,  \* "REFERENCES"
     <<66, 73, 66, 76, 73, 79, 71, 82, 65, 80, 72, 89>> >>  \* "BIBLIOGRAPHY"
image_placeholders ==
  << <<91, 1047, 1044, 1045, 1057, 1068, 32, 1044, 1054, 1051, 1046, 1053, 1054, 32, 1041, 1067, 1058, 1068, 32, 1048, 1047, 1054, 1041, 1056, 1040, 1046, 1045, 1053, 1048, 1045, 93>>,  \* "[ZDES' DOLZHNO BYT' IZOBRAZHENIE]"
     <<91, 1042, 1058, 1054, 1056, 1054, 1045, 32, 1048, 1047, 1054, 1041, 1056, 1040, 1046, 1045, 1053, 1048, 1045, 93>>,  \* "[VTOROE IZOBRAZHENIE]"
     <<91, 1048, 1047, 1054, 1041, 1056, 1040, 1046, 1045, 1053, 1048, 1045, 93>>,  \* "[IZOBRAZHENIE]"
     <<91, 73, 77, 65, 71, 69, 93>>,  \* "[IMAGE]"
     <<91, 1056, 1048, 1057, 1059, 1053, 1054, 1050, 93>>,  \* "[RISUNOK]"
     <<91, 70, 73, 71, 85, 82, 69, 93>>,  \* "[FIGURE]"
     <<91, 1056, 1045, 1040, 1051, 1068, 1053, 1054, 1045, 32, 1048, 1047, 1054, 1041, 1056, 1040, 1046, 1045, 1053, 1048, 1045, 32, 1040, 1056, 1061, 1048, 1058, 1045, 1050, 1058, 1059, 1056, 1067, 93>>,  \* "[REAL'NOE IZOBRAZHENIE ARHITEKTURY]"
     <<91, 1048, 1047, 1054, 1041, 1056, 1040, 1046, 1045, 1053, 1048, 1045, 32, 1042, 32, 1056, 1040, 1047, 1044, 1045, 1051, 1045, 32, 50, 93>>,  \* "[IZOBRAZHENIE V RAZDELE 2]"
     <<91, 1048, 1047, 1054, 1041, 1056, 1040, 1046, 1045, 1053, 1048, 1045, 32, 49, 93>>,  \* "[IZOBRAZHENIE 1]"
     <<91, 1048, 1047, 1054, 1041, 1056, 1040, 1046, 1045, 1053, 1048, 1045, 32, 50, 93>>,  \* "[IZOBRAZHENIE 2]"
     <<91, 1048, 1047, 1054, 1041, 1056, 1040, 1046, 1045, 1053, 1048, 1045, 32, 51, 93>>,  \* "[IZOBRAZHENIE 3]"
     <<91, 1048, 1047, 1054, 1041, 1056, 1040, 1046, 1045, 1053, 1048, 1045, 32, 1042, 32, 1055, 1045, 1056, 1042, 1054, 1049, 32, 1043, 1051, 1040, 1042, 1045, 93>>,  \* "[IZOBRAZHENIE V PERVOJ GLAVE]"
     <<91, 1048, 1047, 1054, 1041, 1056, 1040, 1046, 1045, 1053, 1048, 1045, 32, 1042, 1054, 32, 1042, 1058, 1054, 1056, 1054, 1049, 32, 1043, 1051, 1040, 1042, 1045, 93>> >>  \* "[IZOBRAZHENIE VO VTOROJ GLAVE]"
keywords_abstract ==
  << <<1056, 1045, 1060, 1045, 1056, 1040, 1058>>,  \* "REFERAT"
     <<65, 66, 83, 84, 82, 65, 67, 84>> >>  \* "ABSTRACT"
keywords_annotation ==
  << <<65, 78, 78, 79, 84, 65, 84, 73, 79, 78>>,  \* "ANNOTATION"
     <<1040, 1053, 1053, 1054, 1058, 1040, 1062, 1048, 1071>> >>  \* "ANNOTACIYA"
keywords_introduction ==
  << <<1042, 1042, 1045, 1044, 1045, 1053, 1048, 1045>>,  \* "VVEDENIE"
     <<73, 78, 84, 82, 79, 68, 85, 67, 84, 73, 79, 78>> >>  \* "INTRODUCTION"
keywords_conclusion ==
  << <<1047, 1040, 1050, 1051, 1070, 1063, 1045, 1053, 1048, 1045>>,  \* "ZAKLYUCHENIE"
     <<67, 79, 78, 67, 76, 85, 83, 73, 79, 78>> >>  \* "CONCLUSION"
keywords_references ==
  << <<1057, 1055, 1048, 1057, 1054, 1050, 32, 1048, 1057, 1055, 1054, 1051, 1068, 1047, 1054, 1042, 1040, 1053, 1053, 1067, 1061, 32, 1048, 1057, 1058, 1054, 1063, 1053, 1048, 1050, 1054, 1042>>,  \* "SPISOK ISPOL'ZOVANNYH ISTOCHNIKOV"
     <<1057, 1055, 1048, 1057, 1054, 1050, 32, 1051, 1048, 1058, 1045, 1056, 1040, 1058, 1059, 1056, 1067>>,  \* "SPISOK LITERATURY"
     <<1041, 1048, 1041, 1051, 1048, 1054, 1043, 1056, 1040, 1060, 1048, 1063, 1045, 1057, 1050, 1048, 1049, 32, 1057, 1055, 1048, 1057, 1054, 1050>>,  \* "BIBLIOGRAFICHESKIJ SPISOK"
     <<82, 69, 70, 69, 82, 69, 78, 67, 69, 83>>,  \* "REFERENCES"
     <<66, 73, 66, 76, 73, 79, 71, 82, 65, 80, 72, 89>> >>  \* "BIBLIOGRAPHY"
h1_styles ==
  << <<72, 101, 97, 100, 105, 110, 103, 32, 49>>,  \* "Heading 1"
     <<1047, 1072, 1075, 1086, 1083, 1086, 1074, 1086, 1082, 32, 49>>,  \* "Zagolovok 1"
     <<84, 105, 116, 108, 101>>,  \* "Title"
     <<1053, 1072, 1079, 1074, 1072, 1085, 1080, 1077>>,  \* "Nazvanie"
     <<72, 101, 97, 100, 101, 114, 32, 49>>,  \* "Header 1"
     <<72, 49>> >>  \* "H1"
h2_styles ==
  << <<72, 101, 97, 100, 105, 110, 103, 32, 50>>,  \* "Heading 2"
     <<1047, 1072, 1075, 1086, 1083, 1086, 1074, 1086, 1082, 32, 50>>,  \* "Zagolovok 2"
     <<83, 117, 98, 116, 105, 116, 108, 101>>,  \* "Subtitle"
     <<1055, 1086, 1076, 1079, 1072, 1075, 1086, 1083, 1086, 1074, 1086, 1082>>,  \* "Podzagolovok"
     <<72, 101, 97, 100, 101, 114, 32, 50>>,  \* "Header 2"
     <<72, 50>>,  \* "H2"
     <<72, 101, 97, 100, 105, 110, 103, 50>>,  \* "Heading2"
     <<1047, 1072, 1075, 1086, 1083, 1086, 1074, 1086, 1082, 50>>,  \* "Zagolovok2"
     <<83, 117, 98, 32, 72, 101, 97, 100, 105, 110, 103>>,  \* "Sub Heading"
     <<1055, 1086, 1076, 1088, 1072, 1079, 1076, 1077, 1083>>,  \* "Podrazdel"
     <<83, 101, 99, 116, 105, 111, 110, 32, 72, 101, 97, 100, 105, 110, 103>> >>  \* "Section Heading"
h3_styles ==
  << <<72, 101, 97, 100, 105, 110, 103, 32, 51>>,  \* "Heading 3"
     <<1047, 1072, 1075, 1086, 1083, 1086, 1074, 1086, 1082, 32, 51>>,  \* "Zagolovok 3"
     <<72, 101, 97, 100, 105, 110, 103, 51>>,  \* "Heading3"
     <<1047, 1072, 1075, 1086, 1083, 1086, 1074, 1086, 1082, 51>>,  \* "Zagolovok3"
     <<72, 101, 97, 100, 101, 114, 32, 51>>,  \* "Header 3"
     <<72, 51>>,  \* "H3"
     <<83, 117, 98, 32, 83, 117, 98, 32, 72, 101, 97, 100, 105, 110, 103>>,  \* "Sub Sub Heading"
     <<1055, 1086, 1076, 1087, 1086, 1076, 1088, 1072, 1079, 1076, 1077, 1083>>,  \* "Podpodrazdel"
     <<83, 117, 98, 115, 101, 99, 116, 105, 111, 110, 32, 72, 101, 97, 100, 105, 110, 103>> >>  \* "Subsection Heading"
h4_styles ==
  << <<72, 101, 97, 100, 105, 110, 103, 32, 52>>,  \* "Heading 4"
     <<1047, 1072, 1075, 1086, 1083, 1086, 1074, 1086, 1082, 32, 52>>,  \* "Zagolovok 4"
     <<72, 101, 97, 100, 105, 110, 103, 52>>,  \* "Heading4"
     <<1047, 1072, 1075, 1086, 1083, 1086, 1074, 1086, 1082, 52>>,  \* "Zagolovok4"
     <<72, 101, 97, 100, 101, 114, 32, 52>>,  \* "Header 4"
     <<72, 52>>,  \* "H4"
     <<80, 97, 114, 97, 103, 114, 97, 112, 104, 32, 72, 101, 97, 100, 105, 110, 103>>,  \* "Paragraph Heading"
     <<1055, 1091, 1085, 1082, 1090>>,  \* "Punkt"
     <<80, 111, 105, 110, 116, 32, 72, 101, 97, 100, 105, 110, 103>> >>  \* "Point Heading"
list_styles ==
  << <<76, 105, 115, 116, 32, 80, 97, 114, 97, 103, 114, 97, 112, 104>>,  \* "List Paragraph"
     <<1057, 1087, 1080, 1089, 1086, 1082>>,  \* "Spisok"
     <<66, 117, 108, 108, 101, 116>>,  \* "Bullet"
     <<78, 117, 109, 98, 101, 114, 101, 100>>,  \* "Numbered"
     <<1052, 1072, 1088, 1082, 1080, 1088, 1086, 1074, 1072, 1085, 1085, 1099, 1081, 32, 1089, 1087, 1080, 1089, 1086, 1082>>,  \* "Markirovannyj spisok"
     <<1053, 1091, 1084, 1077, 1088, 1086, 1074, 1072, 1085, 1085, 1099, 1081, 32, 1089, 1087, 1080, 1089, 1086, 1082>> >>  \* "Numerovannyj spisok"
\* "GLAVA"
W_GLAVA == <<1043, 1051, 1040, 1042, 1040>>
\* "VVEDENIE"
W_VVEDENIE == <<1042, 1042, 1045, 1044, 1045, 1053, 1048, 1045>>
\* "ZAKLYUCHENIE"
W_ZAKLYUCHENIE == <<1047, 1040, 1050, 1051, 1070, 1063, 1045, 1053, 1048, 1045>>
\* "REFERAT"
W_REFERAT == <<1056, 1045, 1060, 1045, 1056, 1040, 1058>>
\* "Tablica"
W_Tablica == <<1058, 1072, 1073, 1083, 1080, 1094, 1072>>
\* "Tabl"
W_Tabl == <<1058, 1072, 1073, 1083>>
\* "Table"
W_Table == <<84, 97, 98, 108, 101>>
\* "Risunok"
W_Risunok == <<1056, 1080, 1089, 1091, 1085, 1086, 1082>>
\* "Ris"
W_Ris == <<1056, 1080, 1089>>
\* "Figure"
W_Figure == <<70, 105, 103, 117, 114, 101>>
\* "gde"
W_gde == <<1075, 1076, 1077>>
\* "v"
W_v == <<1074>>
\* "kotoroj"
W_kotoroj == <<1082, 1086, 1090, 1086, 1088, 1086, 1081>>
\* "zdes'"
W_zdes == <<1079, 1076, 1077, 1089, 1100>>
\* "Formula"
W_Formula_ru == <<1060, 1086, 1088, 1084, 1091, 1083, 1072>>
\* "Formula"
W_Formula == <<70, 111, 114, 109, 117, 108, 97>>
\* "Dokumentaciya"
W_Dokumentaciya == <<1044, 1086, 1082, 1091, 1084, 1077, 1085, 1090, 1072, 1094, 1080, 1103>>
\* "Oficial'nyj"
W_Oficialnyj == <<1054, 1092, 1080, 1094, 1080, 1072, 1083, 1100, 1085, 1099, 1081>>
\* "sajt"
W_sajt == <<1089, 1072, 1081, 1090>>
\* "Sajt"
W_Sajt == <<1057, 1072, 1081, 1090>>
\* "Normal"
STYLE_NORMAL == <<78, 111, 114, 109, 97, 108>>
math_functions ==
  << <<115, 105, 110>>,  \* "sin"
     <<99, 111, 115>>,  \* "cos"
     <<116, 97, 110>>,  \* "tan"
     <<108, 111, 103>>,  \* "log"
     <<108, 110>>,  \* "ln"
     <<101, 120, 112>>,  \* "exp"
     <<115, 113, 114, 116>>,  \* "sqrt"
     <<108, 105, 109>>,  \* "lim"
     <<109, 97, 120>>,  \* "max"
     <<109, 105, 110>> >>  \* "min"

(***************************************************************************)
(* The corpus: the paragraph texts and style names the documents of the    *)
(* model are made of                                                       *)
(***************************************************************************)
\* ""
T_EMPTY == <<>>
\* "SODERZHANIE"
T_CONTENTS_HEADER == <<1057, 1054, 1044, 1045, 1056, 1046, 1040, 1053, 1048, 1045>>
\* "1. Vvedenie    5"
T_CONTENTS_LINE == <<49, 46, 32, 1042, 1074, 1077, 1076, 1077, 1085, 1080, 1077, 32, 32, 32, 32, 53>>
\* "1. VVEDENIE"
T_CHAPTER == <<49, 46, 32, 1042, 1042, 1045, 1044, 1045, 1053, 1048, 1045>>
\* "VVEDENIE"
T_INTRODUCTION == <<1042, 1042, 1045, 1044, 1045, 1053, 1048, 1045>>
\* "Tekst razdela."
T_BODY == <<1058, 1077, 1082, 1089, 1090, 32, 1088, 1072, 1079, 1076, 1077, 1083, 1072, 46>>
\* "SPISOK LITERATURY"
T_REFERENCES == <<1057, 1055, 1048, 1057, 1054, 1050, 32, 1051, 1048, 1058, 1045, 1056, 1040, 1058, 1059, 1056, 1067>>
\* "1. Ivanov I.I. Zagolovok. -- M., 2020."
T_BIB_AUTHOR == <<49, 46, 32, 1048, 1074, 1072, 1085, 1086, 1074, 32, 1048, 46, 1048, 46, 32, 1047, 1072, 1075, 1086, 1083, 1086, 1074, 1086, 1082, 46, 32, 8212, 32, 1052, 46, 44, 32, 50, 48, 50, 48, 46>>
\* "-- 200 s."
T_BIB_CONT == <<8212, 32, 50, 48, 48, 32, 1089, 46>>
\* "2. Docker docs"
T_BIB_PLAIN == <<50, 46, 32, 68, 111, 99, 107, 101, 114, 32, 100, 111, 99, 115>>
\* "MINISTERSTVO NAUKI"
T_TITLE_PAGE == <<1052, 1048, 1053, 1048, 1057, 1058, 1045, 1056, 1057, 1058, 1042, 1054, 32, 1053, 1040, 1059, 1050, 1048>>
\* "Tablica 1 - Dannye"
T_TABLE == <<1058, 1072, 1073, 1083, 1080, 1094, 1072, 32, 49, 32, 45, 32, 1044, 1072, 1085, 1085, 1099, 1077>>
\* "Risunok 2 - Shema"
T_FIGURE == <<1056, 1080, 1089, 1091, 1085, 1086, 1082, 32, 50, 32, 45, 32, 1057, 1093, 1077, 1084, 1072>>
\* "(1.1)"
T_NUMBERING == <<40, 49, 46, 49, 41>>
\* "gde a -- uskorenie"
T_EXPLANATION == <<1075, 1076, 1077, 32, 1072, 32, 8211, 32, 1091, 1089, 1082, 1086, 1088, 1077, 1085, 1080, 1077>>
\* "y = x"
T_FORMULA == <<121, 32, 61, 32, 120>>
\* "[IZOBRAZHENIE]"
T_IMAGE == <<91, 1048, 1047, 1054, 1041, 1056, 1040, 1046, 1045, 1053, 1048, 1045, 93>>
\* "1.1 Obzor"
T_SUBSECTION == <<49, 46, 49, 32, 1054, 1073, 1079, 1086, 1088>>
\* "ZAKLYUCHENIE"
T_CONCLUSION == <<1047, 1040, 1050, 1051, 1070, 1063, 1045, 1053, 1048, 1045>>
\* "REFERAT"
T_ABSTRACT == <<1056, 1045, 1060, 1045, 1056, 1040, 1058>>
\* "ANNOTACIYA"
T_ANNOTATION == <<1040, 1053, 1053, 1054, 1058, 1040, 1062, 1048, 1071>>
\* "Normal"
S_NORMAL == <<78, 111, 114, 109, 97, 108>>
\* "Heading 1"
S_HEADING1 == <<72, 101, 97, 100, 105, 110, 103, 32, 49>>
\* "Heading 2"
S_HEADING2 == <<72, 101, 97, 100, 105, 110, 103, 32, 50>>
\* "Heading 3"
S_HEADING3 == <<72, 101, 97, 100, 105, 110, 103, 32, 51>>
\* "Heading 4"
S_HEADING4 == <<72, 101, 97, 100, 105, 110, 103, 32, 52>>
\* "List Paragraph"
S_LIST == <<76, 105, 115, 116, 32, 80, 97, 114, 97, 103, 114, 97, 112, 104>>
\* "Body Text"
S_BODY == <<66, 111, 100, 121, 32, 84, 101, 120, 116>>
\* "heading 1 char"
S_H1_CHAR == <<104, 101, 97, 100, 105, 110, 103, 32, 49, 32, 99, 104, 97, 114>>
\* "" (a paragraph without a style name)
S_NONE == <<>>

(***************************************************************************)
(* ContentDetector: predicates over one text                               *)
(***************************************************************************)
InList(s, list) == \E k \in 1..Len(list) : list[k] = s

\* the four heading patterns shared by is_title_page_content,
\* h1_formatting.detection_patterns and _is_h1_heading:
\*   ^\d+\.\s*[A-YA IO\s]+$   ^GLAVA\s+\d+   ^(VVEDENIE|ZAKLYUCHENIE|REFERAT)$
\*   ^[IVX]+\.\s*[A-YA IO\s]+$
h1_patterns ==
  << Re(TRUE, <<Plus(DIGIT), One({46}), Star(WS), Plus(RU_UP \cup WS)>>, TRUE),
     Re(TRUE, Lit(W_GLAVA) \o <<Plus(WS), Plus(DIGIT)>>, FALSE),
     Re(TRUE, Lit(W_VVEDENIE), TRUE),
     Re(TRUE, Lit(W_ZAKLYUCHENIE), TRUE),
     Re(TRUE, Lit(W_REFERAT), TRUE),
     Re(TRUE, <<Plus({73, 86, 88}), One({46}), Star(WS), Plus(RU_UP \cup WS)>>, TRUE) >>

\*   [A-YA IO][a-ya io]+\s+[A-YA IO]\.[A-YA IO]\.
\*   [A-YA IO][a-ya io]+\s+[A-YA IO][a-ya io]+\s+[A-YA IO][a-ya io]+
fio_patterns ==
  << Re(FALSE, <<One(RU_UP), Plus(RU_LO), Plus(WS), One(RU_UP), One({46}),
                 One(RU_UP), One({46})>>, FALSE),
     Re(FALSE, <<One(RU_UP), Plus(RU_LO), Plus(WS), One(RU_UP), Plus(RU_LO),
                 Plus(WS), One(RU_UP), Plus(RU_LO)>>, FALSE) >>

\* ^\d+\.
starts_with_number == Re(TRUE, <<Plus(DIGIT), One({46})>>, FALSE)

is_title_page_content(text) ==
  LET text_upper == Upper(text) IN
  IF AnyContains(text_upper, references_keywords) THEN FALSE
  ELSE IF AnyMatch(h1_patterns, Strip(text_upper)) THEN FALSE
  ELSE IF AnyContains(text_upper, TITLE_PAGE_MARKERS) THEN TRUE
  ELSE IF AnySearch(fio_patterns, text) THEN TRUE
  ELSE IF Len(text) < 200
       THEN IF AnyContains(text_upper, image_placeholders) THEN FALSE
            ELSE /\ AlphaCount(text) > 0
                 \* upper_ratio > 0.8
                 /\ 10 * UpperCount(text) > 8 * AlphaCount(text)
                 /\ WordCount(text) <= 5
                 /\ ~ReMatch(starts_with_number, Strip(text))
       ELSE FALSE

is_contents_header(text) == InList(Strip(Upper(text)), CONTENT_HEADERS)

RU_ALL == RU_UP \cup RU_LO
content_patterns ==
  << \* .+\.{3,}.+\d+$
     Re(FALSE, <<Plus(DOT), AtLeast(3, {46}), Plus(DOT), Plus(DIGIT)>>, TRUE),
     \* .+\.{2,}\s*\d+$
     Re(FALSE, <<Plus(DOT), AtLeast(2, {46}), Star(WS), Plus(DIGIT)>>, TRUE),
     \* ^[A-YA IO\d\.\s]+\.{3,}\d+$
     Re(TRUE, <<Plus(RU_UP \cup DIGIT \cup {46} \cup WS), AtLeast(3, {46}),
                Plus(DIGIT)>>, TRUE),
     \* ^\d+[\.\s][A-YA IO a-ya io\s]+\.{3,}\d+$
     Re(TRUE, <<Plus(DIGIT), One({46} \cup WS), Plus(RU_ALL \cup WS),
                AtLeast(3, {46}), Plus(DIGIT)>>, TRUE),
     \* ^\d+\.\d+[\.\s][A-YA IO a-ya io\s]+\.{3,}\d+$
     Re(TRUE, <<Plus(DIGIT), One({46}), Plus(DIGIT), One({46} \cup WS),
                Plus(RU_ALL \cup WS), AtLeast(3, {46}), Plus(DIGIT)>>, TRUE),
     \* ^[A-YA IO a-ya io\s]+\s+\d+$
     Re(TRUE, <<Plus(RU_ALL \cup WS), Plus(WS), Plus(DIGIT)>>, TRUE),
     \* ^\d+\.\s*[A-YA IO a-ya io\s]+\s+\d+$
     Re(TRUE, <<Plus(DIGIT), One({46}), Star(WS), Plus(RU_ALL \cup WS), Plus(WS),
                Plus(DIGIT)>>, TRUE),
     \* ^\d+\s+[A-YA IO a-ya io\s]+\s+\d+$
     Re(TRUE, <<Plus(DIGIT), Plus(WS), Plus(RU_ALL \cup WS), Plus(WS),
                Plus(DIGIT)>>, TRUE),
     \* ^\d+\.\d+\s+[A-YA IO a-ya io\s]+\s+\d+$
     Re(TRUE, <<Plus(DIGIT), One({46}), Plus(DIGIT), Plus(WS), Plus(RU_ALL \cup WS),
                Plus(WS), Plus(DIGIT)>>, TRUE),
     \* ^[A-YA IO a-ya io\s,]+\d+$
     Re(TRUE, <<Plus(RU_ALL \cup WS \cup {44}), Plus(DIGIT)>>, TRUE) >>

\* \d+$
ends_with_number == Re(FALSE, <<Plus(DIGIT)>>, TRUE)

is_contents_line(text) ==
  LET text_clean == Strip(text) IN
  IF text_clean = <<>> THEN FALSE
  ELSE IF AnySearch(content_patterns, text_clean) THEN TRUE
  ELSE /\ ReSearch(ends_with_number, text_clean)
       /\ WordCount(text_clean) >= 2
       /\ WordCount(text_clean) <= 8
       /\ IsIntLiteral(LastWord(text_clean))

is_service_content(text) ==
  LET text_upper == Upper(text) IN
  IF AnyContains(text_upper, references_keywords) THEN FALSE
  ELSE AnyContains(text_upper, SERVICE_MARKERS)

\*   ^GLAVA\s+\d+$   ^\d+\.\s*[A-YA IO][A-YA IO a-ya io\s]*$
\*   ^\d+\s+[A-YA IO][A-YA IO a-ya io\s]*$
chapter_patterns ==
  << Re(TRUE, Lit(W_GLAVA) \o <<Plus(WS), Plus(DIGIT)>>, TRUE),
     Re(TRUE, <<Plus(DIGIT), One({46}), Star(WS), One(RU_UP), Star(RU_ALL \cup WS)>>, TRUE),
     Re(TRUE, <<Plus(DIGIT), Plus(WS), One(RU_UP), Star(RU_ALL \cup WS)>>, TRUE) >>

\* \s+\d+$
trailing_page_number == Re(FALSE, <<Plus(WS), Plus(DIGIT)>>, TRUE)

is_main_content_start(text) ==
  LET text_upper == Strip(Upper(text)) IN
  IF is_contents_line(text) THEN FALSE
  ELSE IF InList(text_upper, MAIN_CONTENT_MARKERS) THEN TRUE
  ELSE /\ AnyMatch(chapter_patterns, text_upper)
       /\ ~ReSearch(trailing_page_number, Strip(text))

(***************************************************************************)
(* Requirements: the detection patterns and keywords of the default        *)
(* requirements                                                            *)
(***************************************************************************)
NUM2 == <<Plus(DIGIT), One({46}), Plus(DIGIT)>>
NUM3 == NUM2 \o <<One({46}), Plus(DIGIT)>>
NUM4 == NUM3 \o <<One({46}), Plus(DIGIT)>>
\* [A-YA a-ya io IO], the letter class of the heading patterns
RU_LETTER == (1040..1103) \cup {1105, 1025}
\*   ^N\.?\s+[A-YA a-ya io IO]     ^N\s+[A-YA IO\s]+$    with N the section number
numbered_heading_patterns(num) ==
  << Re(TRUE, num \o <<Opt({46}), Plus(WS), One(RU_LETTER)>>, FALSE),
     Re(TRUE, num \o <<Plus(WS), Plus(RU_UP \cup WS)>>, TRUE) >>
h2_detection_patterns == numbered_heading_patterns(NUM2)
h3_detection_patterns == numbered_heading_patterns(NUM3)
h4_detection_patterns == numbered_heading_patterns(NUM4)

DASHES == {45, 8211, 8212}
\*   ^\s*[---]\s+    ^\s*\d+\)\s+    ^\s*[a-ya]\)\s+
list_detection_patterns ==
  << Re(TRUE, <<Star(WS), One(DASHES), Plus(WS)>>, FALSE),
     Re(TRUE, <<Star(WS), Plus(DIGIT), One({41}), Plus(WS)>>, FALSE),
     Re(TRUE, <<Star(WS), One(1072..1103), One({41}), Plus(WS)>>, FALSE) >>

\*   Tablica\s+\d+   Tabl\.\s+\d+   Table\s+\d+
table_detection_patterns ==
  << Re(FALSE, Lit(W_Tablica) \o <<Plus(WS), Plus(DIGIT)>>, FALSE),
     Re(FALSE, Lit(W_Tabl) \o <<One({46}), Plus(WS), Plus(DIGIT)>>, FALSE),
     Re(FALSE, Lit(W_Table) \o <<Plus(WS), Plus(DIGIT)>>, FALSE) >>
\*   Risunok\s+\d+   Ris\.\s+\d+   Figure\s+\d+
figure_detection_patterns ==
  << Re(FALSE, Lit(W_Risunok) \o <<Plus(WS), Plus(DIGIT)>>, FALSE),
     Re(FALSE, Lit(W_Ris) \o <<One({46}), Plus(WS), Plus(DIGIT)>>, FALSE),
     Re(FALSE, Lit(W_Figure) \o <<Plus(WS), Plus(DIGIT)>>, FALSE) >>

\* special_sections in the order of the dictionary
special_sections ==
  << [name |-> "abstract", keywords |-> keywords_abstract],
     [name |-> "annotation", keywords |-> keywords_annotation],
     [name |-> "introduction", keywords |-> keywords_introduction],
     [name |-> "conclusion", keywords |-> keywords_conclusion],
     [name |-> "references", keywords |-> keywords_references] >>

(***************************************************************************)
(* DocumentState                                                           *)
(***************************************************************************)
DocumentState_init ==
  [in_title_section |-> TRUE, in_contents_section |-> FALSE,
   in_references_section |-> FALSE, found_main_content |-> FALSE]

\* variant: a contents header starts the scan over
start_contents_section_restart(st) ==
  [st EXCEPT !.in_contents_section = TRUE, !.found_main_content = FALSE]
start_contents_section(st) == [st EXCEPT !.in_contents_section = TRUE]

\* variant: the title section is left open
start_main_content_in_title(st) ==
  [st EXCEPT !.in_contents_section = FALSE, !.in_references_section = FALSE,
             !.found_main_content = TRUE]
start_main_content(st) ==
  [st EXCEPT !.in_title_section = FALSE, !.in_contents_section = FALSE,
             !.in_references_section = FALSE, !.found_main_content = TRUE]

start_references_section(st) == [st EXCEPT !.in_references_section = TRUE]

(***************************************************************************)
(* Text tests of the two classifiers                                       *)
(***************************************************************************)
\* _is_h1_paragraph and _is_h1_by_pattern: the patterns on the upper-cased
\* text, then "short and more than 70% upper-case letters"
is_h1_by_pattern(text) ==
  \/ AnyMatch(h1_patterns, Strip(Upper(text)))
  \/ /\ Len(text) < 100
     /\ AlphaCount(text) > 0
     /\ 10 * UpperCount(text) > 7 * AlphaCount(text)

is_h2_by_pattern(text) == AnyMatch(h2_detection_patterns, Strip(text))
is_h3_by_pattern(text) == AnyMatch(h3_detection_patterns, Strip(text))
is_h4_by_pattern(text) == AnyMatch(h4_detection_patterns, Strip(text))
is_list_by_pattern(text) == AnyMatch(list_detection_patterns, text)

\*   \(\d+\.\d+\)   \(\d+\)
numbering_patterns ==
  << Re(FALSE, <<One({40})>> \o NUM2 \o <<One({41})>>, FALSE),
     Re(FALSE, <<One({40}), Plus(DIGIT), One({41})>>, FALSE) >>
\*   ^gde\s+[a-ya io A-YA IO]   ^[a-ya io A-YA IO]\s*[---]\s*
\*   ^v\s+kotoroj\s+            ^zdes'\s+[a-ya io A-YA IO]
explanation_patterns ==
  << Re(TRUE, Lit(W_gde) \o <<Plus(WS), One(RU_ALL)>>, FALSE),
     Re(TRUE, <<One(RU_ALL), Star(WS), One(DASHES), Star(WS)>>, FALSE),
     Re(TRUE, Lit(W_v) \o <<Plus(WS)>> \o Lit(W_kotoroj) \o <<Plus(WS)>>, FALSE),
     Re(TRUE, Lit(W_zdes) \o <<Plus(WS), One(RU_ALL)>>, FALSE) >>
\*   ^Formula\s+\d+ in Russian and in English
formula_title_patterns ==
  << Re(TRUE, Lit(W_Formula_ru) \o <<Plus(WS), Plus(DIGIT)>>, FALSE),
     Re(TRUE, Lit(W_Formula) \o <<Plus(WS), Plus(DIGIT)>>, FALSE) >>
\* operators, mathematical symbols, Greek letters, \b(sin|cos|...)\b,
\* subscript and superscript digits
math_indicators ==
  << Re(FALSE, <<One({61, 43, 45, 42, 47, 94})>>, FALSE),
     Re(FALSE, <<One({8721, 8719, 8747, 8706, 8710, 8711})>>, FALSE),
     Re(FALSE, <<One((945..961) \cup (963..969))>>, FALSE),
     Re(FALSE, <<One((913..929) \cup (931..937))>>, FALSE) >>
   \o [k \in 1..Len(math_functions) |->
         Re(FALSE, <<WordB>> \o Lit(math_functions[k]) \o <<WordB>>, FALSE)]
   \o << Re(FALSE, <<One(8320..8329)>>, FALSE),
         Re(FALSE, <<One({8304, 185, 178, 179} \cup (8308..8313))>>, FALSE) >>

classify_content_elements(text_clean) ==
  IF AnySearchIC(table_detection_patterns, text_clean) THEN "table_caption"
  ELSE IF AnySearchIC(figure_detection_patterns, text_clean) THEN "figure_caption"
  ELSE IF AnySearch(numbering_patterns, text_clean) THEN "formula_numbering"
  ELSE IF AnySearchIC(explanation_patterns, text_clean) THEN "formula_explanation"
  ELSE IF AnySearchIC(formula_title_patterns, text_clean) THEN "formula"
  ELSE IF AnySearch(math_indicators, text_clean) THEN "formula"
  ELSE "regular"

\*   ^\s*\d+\.\s+    ^\s*\d+\.\s*$
is_bibliography_entry_start(text) ==
  \/ ReMatch(Re(TRUE, <<Star(WS), Plus(DIGIT), One({46}), Plus(WS)>>, FALSE), text)
  \/ ReMatch(Re(TRUE, <<Star(WS), Plus(DIGIT), One({46}), Star(WS)>>, TRUE), text)

start_patterns ==
  << \* ^[A-YA IO][a-ya io]+\s+[A-YA IO]\.
     Re(TRUE, <<One(RU_UP), Plus(RU_LO), Plus(WS), One(RU_UP), One({46})>>, FALSE),
     \* ^[A-Z][a-z]+\s+[A-Z]\.
     Re(TRUE, <<One(LAT_UP), Plus(LAT_LO), Plus(WS), One(LAT_UP), One({46})>>, FALSE),
     \* ^[A-YA IO][a-ya io]+\s+[A-YA IO]\.\s*[A-YA IO]\.
     Re(TRUE, <<One(RU_UP), Plus(RU_LO), Plus(WS), One(RU_UP), One({46}), Star(WS),
                One(RU_UP), One({46})>>, FALSE),
     \* ^[A-Z][a-z]+\s+[A-Z]\.\s*[A-Z]\.
     Re(TRUE, <<One(LAT_UP), Plus(LAT_LO), Plus(WS), One(LAT_UP), One({46}), Star(WS),
                One(LAT_UP), One({46})>>, FALSE),
     \* ^[A-YA IO][a-ya io\s]+\s*[:/]
     Re(TRUE, <<One(RU_UP), Plus(RU_LO \cup WS), Star(WS), One({58, 47})>>, FALSE),
     \* ^[A-Z][a-zA-Z\s]+\s*[:/]
     Re(TRUE, <<One(LAT_UP), Plus(LAT_LO \cup LAT_UP \cup WS), Star(WS),
                One({58, 47})>>, FALSE),
     \* ^Dokumentaciya\s+
     Re(TRUE, Lit(W_Dokumentaciya) \o <<Plus(WS)>>, FALSE),
     \* ^Oficial'nyj\s+sajt
     Re(TRUE, Lit(W_Oficialnyj) \o <<Plus(WS)>> \o Lit(W_sajt), FALSE),
     \* ^Sajt\s+
     Re(TRUE, Lit(W_Sajt) \o <<Plus(WS)>>, FALSE) >>

looks_like_bibliography_start(text) ==
  \/ AnyMatch(start_patterns, text)
  \* ^[A-YA IO A-Z] and '.' in text[:50]
  \/ /\ ReMatch(Re(TRUE, <<One(RU_UP \cup LAT_UP)>>, FALSE), text)
     /\ \E i \in 1..Min(Len(text), 50) : text[i] = 46

\* keyword.upper() in text_upper for a keyword of the references section
has_references_keyword(text_clean) ==
  \E k \in 1..Len(keywords_references) :
     Contains(Upper(text_clean), Upper(keywords_references[k]))

\* the sections one of whose keywords is in the text, by position in the dictionary
sections_in(text_clean) ==
  {n \in 1..Len(special_sections) :
     \E k \in 1..Len(special_sections[n].keywords) :
        Contains(Upper(text_clean), Upper(special_sections[n].keywords[k]))}

\* the last loop of _classify_special_sections: "special_" + the first section
special_section_role(text_clean) ==
  LET ns == sections_in(text_clean) IN
  IF ns = {} THEN "regular"
  ELSE LET n == CHOOSE m \in ns : \A j \in ns : m <= j IN
       CASE special_sections[n].name = "abstract" -> "special_abstract"
         [] special_sections[n].name = "annotation" -> "special_annotation"
         [] special_sections[n].name = "introduction" -> "special_introduction"
         [] special_sections[n].name = "conclusion" -> "special_conclusion"
         [] OTHER -> "special_references"

is_special_h1_section(text_clean) == sections_in(text_clean) # {}

\*   ^\d+\.\s+[A-YA IO]   ^GLAVA\s+\d+   ^\d+\s+[A-YA IO]
numbered_patterns ==
  << Re(TRUE, <<Plus(DIGIT), One({46}), Plus(WS), One(RU_UP)>>, FALSE),
     Re(TRUE, Lit(W_GLAVA) \o <<Plus(WS), Plus(DIGIT)>>, FALSE),
     Re(TRUE, <<Plus(DIGIT), Plus(WS), One(RU_UP)>>, FALSE) >>
is_numbered_chapter(text) == AnyMatch(numbered_patterns, Strip(Upper(text)))

\* a placeholder token in paragraph.text.strip().upper()
has_image_placeholder(text) == AnyContains(Upper(Strip(text)), image_placeholders)

\* style_name in the aliases, or some alias.lower() in style_name.lower()
style_matches(style_name, aliases) ==
  \/ InList(style_name, aliases)
  \/ \E k \in 1..Len(aliases) : Contains(Lower(style_name), Lower(aliases[k]))
is_h1_style(style_name) == style_matches(style_name, h1_styles)
is_h2_style(style_name) == style_matches(style_name, h2_styles)
is_h3_style(style_name) == style_matches(style_name, h3_styles)
is_h4_style(style_name) == style_matches(style_name, h4_styles)
is_list_style(style_name) == style_matches(style_name, list_styles)

(***************************************************************************)
(* The verdicts of the text tests and of the style tests do not depend on  *)
(* the scan state; they are evaluated once for each text and each style    *)
(* name of the corpus.  The classifiers below take the verdicts on the     *)
(* text they classify (tests) and on the style name (style_tests).         *)
(***************************************************************************)
TextCorpus ==
  << T_EMPTY, T_CONTENTS_HEADER, T_CONTENTS_LINE, T_CHAPTER, T_INTRODUCTION,
     T_BODY, T_REFERENCES, T_BIB_AUTHOR, T_BIB_CONT, T_BIB_PLAIN, T_TITLE_PAGE,
     T_TABLE, T_FIGURE, T_NUMBERING, T_EXPLANATION, T_FORMULA, T_IMAGE,
     T_SUBSECTION, T_CONCLUSION, T_ABSTRACT, T_ANNOTATION >>
StyleCorpus ==
  << S_NORMAL, S_HEADING1, S_HEADING2, S_HEADING3, S_HEADING4, S_LIST, S_BODY,
     S_H1_CHAR, S_NONE >> \o h1_styles \o h2_styles \o h3_styles \o h4_styles
Texts == {TextCorpus[i] : i \in 1..Len(TextCorpus)}
Styles == {StyleCorpus[i] : i \in 1..Len(StyleCorpus)}

TextVerdicts(t) ==
  [is_contents_header |-> is_contents_header(t),
   is_contents_line |-> is_contents_line(t),
   is_title_page_content |-> is_title_page_content(t),
   is_service_content |-> is_service_content(t),
   is_main_content_start |-> is_main_content_start(t),
   content_element |-> classify_content_elements(t),
   is_h1_by_pattern |-> is_h1_by_pattern(t),
   is_h2_by_pattern |-> is_h2_by_pattern(t),
   is_h3_by_pattern |-> is_h3_by_pattern(t),
   is_h4_by_pattern |-> is_h4_by_pattern(t),
   is_list_by_pattern |-> is_list_by_pattern(t),
   has_references_keyword |-> has_references_keyword(t),
   is_bibliography_entry_start |-> is_bibliography_entry_start(t),
   looks_like_bibliography_start |-> looks_like_bibliography_start(t),
   special_section_role |-> special_section_role(t),
   is_special_h1_section |-> is_special_h1_section(t),
   is_numbered_chapter |-> is_numbered_chapter(t),
   is_blank |-> Strip(t) = <<>>]
StyleVerdicts(s) ==
  [is_h1_style |-> is_h1_style(s), is_h2_style |-> is_h2_style(s),
   is_h3_style |-> is_h3_style(s), is_h4_style |-> is_h4_style(s),
   is_list_style |-> is_list_style(s), is_normal |-> s = STYLE_NORMAL]
\* (@@ makes the tables explicit functions, evaluated once)
TextTable == [t \in {Strip(u) : u \in Texts} |-> TextVerdicts(t)] @@ <<>>
StyleTable == [s \in Styles \cup {STYLE_NORMAL} |-> StyleVerdicts(s)] @@ <<>>
V(t) == TextTable[t]
SV(s) == StyleTable[s]

Result(role, st) == [role |-> role, state |-> st]

(***************************************************************************)
(* ParagraphClassifier (text patterns only)                                *)
(***************************************************************************)
PC_classify_content_paragraph(tests) ==
  IF tests.is_h1_by_pattern THEN "h1"
  ELSE IF tests.is_h2_by_pattern THEN "h2"
  ELSE IF tests.is_list_by_pattern THEN "list"
  ELSE "regular"

\* variant: the contents section is never left
PC_classify_in_contents_section_stays(st, tests) ==
  IF tests.is_contents_line THEN Result("skip", st)
  ELSE IF tests.is_main_content_start
       THEN Result(PC_classify_content_paragraph(tests), st)
       ELSE Result("skip", st)
PC_classify_in_contents_section(st, tests) ==
  IF tests.is_contents_line THEN Result("skip", st)
  ELSE IF tests.is_main_content_start
       THEN Result(PC_classify_content_paragraph(tests), start_main_content(st))
       ELSE Result("skip", st)

\* variant: no test for the empty text
classify_paragraph_any_text(st, text, tests) ==
  IF tests.is_contents_header
  THEN Result("skip", start_contents_section(st))
  ELSE IF st.in_contents_section
  THEN PC_classify_in_contents_section(st, tests)
  ELSE IF tests.is_title_page_content \/ tests.is_service_content
  THEN Result("skip", st)
  ELSE IF ~st.found_main_content /\ tests.is_main_content_start
  THEN Result(PC_classify_content_paragraph(tests), start_main_content(st))
  ELSE IF st.in_title_section
  THEN Result("skip", st)
  ELSE Result(PC_classify_content_paragraph(tests), st)

\* tests: the verdicts on text_clean = text.strip()
classify_paragraph(st, text, tests) ==
  IF text = <<>> THEN Result("skip", st)
  ELSE IF tests.is_contents_header
       THEN Result("skip", start_contents_section(st))
       ELSE IF st.in_contents_section
       THEN PC_classify_in_contents_section(st, tests)
       ELSE IF tests.is_title_page_content \/ tests.is_service_content
       THEN Result("skip", st)
       ELSE IF ~st.found_main_content /\ tests.is_main_content_start
       THEN Result(PC_classify_content_paragraph(tests), start_main_content(st))
       ELSE IF st.in_title_section
       THEN Result("skip", st)
       ELSE Result(PC_classify_content_paragraph(tests), st)

(***************************************************************************)
(* StyleBasedClassifier                                                    *)
(***************************************************************************)
\* paragraph.text: the concatenation of the texts of the runs
RECURSIVE ConcatRuns(_, _)
ConcatRuns(runs, k) ==
  IF k > Len(runs) THEN <<>> ELSE runs[k].text \o ConcatRuns(runs, k + 1)
ParagraphText(p) == ConcatRuns(p.runs, 1)

\* a paragraph without a style, or with an unnamed one, counts as "Normal"
get_paragraph_style_name(paragraph) ==
  IF paragraph.style # <<>> THEN paragraph.style ELSE STYLE_NORMAL

\* a placeholder token in the text, or a drawing, pict or object element in
\* a run (the last test of the source needs an empty paragraph text, which
\* the paragraph pass classifies as skip before it gets here)
contains_image(paragraph) ==
  has_image_placeholder(ParagraphText(paragraph)) \/ paragraph.drawing

classify_by_text_patterns(tests) ==
  IF tests.is_h1_by_pattern THEN "h1"
  ELSE IF tests.is_h2_by_pattern THEN "h2"
  ELSE IF tests.is_h3_by_pattern THEN "h3"
  ELSE IF tests.is_h4_by_pattern THEN "h4"
  ELSE IF tests.is_list_by_pattern THEN "list"
  ELSE "regular"

classify_special_sections(st, tests) ==
  IF tests.has_references_keyword
  THEN Result("references_header", start_references_section(st))
  ELSE IF st.in_references_section /\ ~tests.is_blank
  THEN IF tests.is_bibliography_entry_start
       THEN Result("bibliography_entry", st)
       ELSE IF tests.looks_like_bibliography_start
            THEN Result("bibliography_entry", st)
            ELSE Result("bibliography_continuation", st)
  ELSE Result(tests.special_section_role, st)

\* style_tests: the verdicts on _get_paragraph_style_name(paragraph)
classify_content_paragraph_by_style(st, paragraph, tests, style_tests, strict_style_mode) ==
  IF contains_image(paragraph) THEN Result("figure_image", st)
  ELSE IF tests.content_element # "regular"
  THEN Result(tests.content_element, st)
  ELSE IF style_tests.is_h1_style
  THEN IF tests.is_numbered_chapter THEN Result("h1", st)
       ELSE IF tests.is_special_h1_section
            THEN classify_special_sections(st, tests)
            ELSE Result("h1", st)
  ELSE IF style_tests.is_h2_style THEN Result("h2", st)
  ELSE IF style_tests.is_h3_style THEN Result("h3", st)
  ELSE IF style_tests.is_h4_style THEN Result("h4", st)
  ELSE IF style_tests.is_list_style THEN Result("list", st)
  ELSE IF style_tests.is_normal
  THEN IF strict_style_mode THEN Result("regular", st)
       ELSE Result(classify_by_text_patterns(tests), st)
  ELSE classify_special_sections(st, tests)

\* variant: the style-based scan never leaves the contents section
SB_classify_in_contents_section_stays(st, tests) ==
  IF tests.is_contents_line THEN Result("skip", st)
  ELSE IF tests.is_main_content_start
       THEN Result(classify_by_text_patterns(tests), st)
       ELSE Result("skip", st)
SB_classify_in_contents_section(st, tests) ==
  IF tests.is_contents_line THEN Result("skip", st)
  ELSE IF tests.is_main_content_start
       THEN Result(classify_by_text_patterns(tests), start_main_content(st))
       ELSE Result("skip", st)

\* variant: a paragraph of the title section that is neither title-page nor
\* service text is classified as content
classify_paragraph_by_style_content_in_title(st, paragraph, text, tests, style_tests, strict_style_mode) ==
  IF text = <<>> THEN Result("skip", st)
  ELSE IF tests.is_contents_header
       THEN Result("skip", start_contents_section(st))
       ELSE IF st.in_contents_section
       THEN SB_classify_in_contents_section(st, tests)
       ELSE IF tests.is_title_page_content \/ tests.is_service_content
       THEN Result("skip", st)
       ELSE IF ~st.found_main_content /\ tests.is_main_content_start
       THEN classify_content_paragraph_by_style(start_main_content(st), paragraph,
                                                tests, style_tests, strict_style_mode)
       ELSE classify_content_paragraph_by_style(st, paragraph, tests, style_tests,
                                                strict_style_mode)

\* variant: title-page and service texts are skipped in the title section only
classify_paragraph_by_style_title_only(st, paragraph, text, tests, style_tests, strict_style_mode) ==
  IF text = <<>> THEN Result("skip", st)
  ELSE IF tests.is_contents_header
       THEN Result("skip", start_contents_section(st))
       ELSE IF st.in_contents_section
       THEN SB_classify_in_contents_section(st, tests)
       ELSE IF ~st.found_main_content /\ tests.is_main_content_start
       THEN classify_content_paragraph_by_style(start_main_content(st), paragraph,
                                                tests, style_tests, strict_style_mode)
       ELSE IF st.in_title_section
       THEN Result("skip", st)
       ELSE classify_content_paragraph_by_style(st, paragraph, tests, style_tests,
                                                strict_style_mode)

\* tests: the verdicts on text_clean = text.strip()
classify_paragraph_by_style(st, paragraph, text, tests, style_tests, strict_style_mode) ==
  IF text = <<>> THEN Result("skip", st)
  ELSE IF tests.is_contents_header
       THEN Result("skip", start_contents_section(st))
       ELSE IF st.in_contents_section
       THEN SB_classify_in_contents_section(st, tests)
       ELSE IF tests.is_title_page_content \/ tests.is_service_content
       THEN Result("skip", st)
       ELSE IF ~st.found_main_content /\ tests.is_main_content_start
       THEN classify_content_paragraph_by_style(start_main_content(st), paragraph,
                                                tests, style_tests, strict_style_mode)
       ELSE IF st.in_title_section
       THEN Result("skip", st)
       ELSE classify_content_paragraph_by_style(st, paragraph, tests, style_tests,
                                                strict_style_mode)

(***************************************************************************)
(* Requirements: the formatting blocks of the default requirements.  Font  *)
(* sizes and spacings are in points, indents in hundredths of a            *)
(* centimetre, line spacings in tenths.                                    *)
(***************************************************************************)
TNR == "Times New Roman"
special_block ==
  [font_name |-> TNR, font_size |-> 14, alignment |-> "justify", line_spacing |-> 15,
   paragraph_indent_cm |-> 125]
get_default_vkr_requirements ==
  [base_formatting |->
     [font_name |-> TNR, font_size |-> 14, line_spacing |-> 15,
      text_alignment |-> "justify", paragraph_indent_cm |-> 125,
      margins_cm |-> [top |-> 200, bottom |-> 200, left |-> 300, right |-> 150]],
   h1_formatting |->
     [font_name |-> TNR, font_size |-> 16, font_weight |-> "bold",
      text_transform |-> "uppercase", alignment |-> "center",
      page_break_before |-> TRUE, space_before_pt |-> 0, space_after_pt |-> 18],
   h2_formatting |->
     [font_name |-> TNR, font_size |-> 14, font_weight |-> "bold",
      text_transform |-> "none", alignment |-> "left", page_break_before |-> FALSE,
      space_before_pt |-> 12, space_after_pt |-> 6, paragraph_indent_cm |-> 200],
   h3_formatting |->
     [font_name |-> TNR, font_size |-> 14, font_weight |-> "normal",
      text_transform |-> "none", alignment |-> "left", page_break_before |-> FALSE,
      space_before_pt |-> 6, space_after_pt |-> 3, paragraph_indent_cm |-> 250],
   h4_formatting |->
     [font_name |-> TNR, font_size |-> 14, font_weight |-> "normal",
      text_transform |-> "none", alignment |-> "left", page_break_before |-> FALSE,
      space_before_pt |-> 3, space_after_pt |-> 3, paragraph_indent_cm |-> 200],
   special_sections |->
     [abstract |-> special_block, annotation |-> special_block,
      introduction |-> special_block, conclusion |-> special_block,
      references |->
        [title |->
           [font_name |-> TNR, font_size |-> 16, font_weight |-> "bold",
            text_transform |-> "uppercase", alignment |-> "center",
            page_break_before |-> TRUE, space_before_pt |-> 0, space_after_pt |-> 18],
         content |->
           [font_name |-> TNR, font_size |-> 14, alignment |-> "justify",
            line_spacing |-> 15, paragraph_indent_cm |-> 150,
            space_before_pt |-> 0, space_after_pt |-> 0]]],
   tables |->
     [caption |->
        [alignment |-> "left", font_name |-> TNR, font_size |-> 14,
         font_weight |-> "normal", line_spacing |-> 10,
         spacing |-> [before_pt |-> 12, after_pt |-> 6]],
      table |-> [alignment |-> "center", width_auto |-> TRUE],
      content |->
        [font_name |-> TNR, font_size |-> 12, alignment |-> "center",
         line_spacing |-> 10],
      header |->
        [font_name |-> TNR, font_size |-> 12, font_weight |-> "bold",
         alignment |-> "center"]],
   figures |->
     [image |-> [alignment |-> "center", spacing |-> [before_pt |-> 12, after_pt |-> 6]],
      caption |->
        [alignment |-> "center", font_name |-> TNR, font_size |-> 14,
         font_weight |-> "normal", line_spacing |-> 10,
         spacing |-> [before_pt |-> 6, after_pt |-> 12]]],
   formulas |->
     [formula |->
        [alignment |-> "center", font_name |-> TNR, font_size |-> 14,
         spacing |-> [before_pt |-> 12, after_pt |-> 6]],
      numbering |->
        [font_name |-> TNR, font_size |-> 14, alignment |-> "right",
         spacing |-> [before_pt |-> 0, after_pt |-> 6]],
      variables_explanation |->
        [font_name |-> TNR, font_size |-> 14, alignment |-> "left",
         line_spacing |-> 15, indent_cm |-> 125,
         spacing |-> [before_pt |-> 6, after_pt |-> 12]]],
   lists |->
     [bullet_lists |->
        [indent_cm |-> 125, font |-> [name |-> TNR, size |-> 14, line_spacing |-> 15],
         alignment |-> "justify"]]]

\* VKRFormatter.requirements, the structure the classifier and the formatter
\* hold too (self.requirements = requirements keeps the object it is given)
VARIABLE requirements

(***************************************************************************)
(* The document library: lengths, enumerations, paragraphs and runs        *)
(***************************************************************************)
\* Pt(n) and Cm(c/100) in EMU
Pt(n) == n * 12700
Cm(c) == c * 3600
ALIGN_MAP == [left |-> "LEFT", center |-> "CENTER", right |-> "RIGHT", justify |-> "JUSTIFY"]
\* keyed by the line spacing in tenths: 1.0, 1.5, 2.0
LINE_SPACING_MAP == (10 :> "SINGLE") @@ (15 :> "ONE_POINT_FIVE") @@ (20 :> "DOUBLE")

\* a run that add_run() has just made
\* page_break: the run starts with a page break element, which run.text and
\* paragraph.text leave out
NewRun(text) == [text |-> text, font_name |-> "", font_size |-> 0, bold |-> FALSE, page_break |-> FALSE]

(***************************************************************************)
(* ParagraphFormatter                                                      *)
(***************************************************************************)
Has(config, key) == key \in DOMAIN config

\* variant: a run is added whether or not the paragraph has runs
apply_font_formatting_new_run(paragraph, config) ==
  LET runs == Append(paragraph.runs, NewRun(<<>>))
      font(run) ==
        [run EXCEPT
           !.font_name = IF Has(config, "font_name") THEN config.font_name ELSE @,
           !.font_size = IF Has(config, "font_size") THEN Pt(config.font_size) ELSE @,
           !.bold = IF Has(config, "font_weight") /\ config.font_weight = "bold"
                    THEN TRUE ELSE @]
  IN  [paragraph EXCEPT !.runs = [k \in 1..Len(runs) |-> font(runs[k])]]

apply_font_formatting(paragraph, config) ==
  LET runs == IF paragraph.runs = <<>> THEN <<NewRun(<<>>)>> ELSE paragraph.runs
      font(run) ==
        [run EXCEPT
           !.font_name = IF Has(config, "font_name") THEN config.font_name ELSE @,
           !.font_size = IF Has(config, "font_size") THEN Pt(config.font_size) ELSE @,
           !.bold = IF Has(config, "font_weight") /\ config.font_weight = "bold"
                    THEN TRUE ELSE @]
  IN  [paragraph EXCEPT !.runs = [k \in 1..Len(runs) |-> font(runs[k])]]

\* paragraph.clear() drops the runs with everything they hold; one run with
\* the upper-cased text replaces them
make_text_uppercase(paragraph, config) ==
  LET run == NewRun(Upper(ParagraphText(paragraph))) IN
  [paragraph EXCEPT
     !.drawing = FALSE,
     !.runs = << [run EXCEPT !.font_name = config.font_name,
                             !.font_size = Pt(config.font_size),
                             !.bold = IF config.font_weight = "bold" THEN TRUE ELSE @] >>]

\* variant: the fallback clears the first run and does not put its text back
add_page_break_before_without_text(paragraph) ==
  IF ~paragraph.page_break_raises
  THEN [paragraph EXCEPT !.page_break_before = TRUE]
  ELSE IF paragraph.runs # <<>>
       THEN [paragraph EXCEPT !.runs[1].text = <<>>, !.runs[1].page_break = TRUE]
       ELSE [paragraph EXCEPT !.runs = << [NewRun(<<>>) EXCEPT !.page_break = TRUE] >>]

\* pf.page_break_before = True; when the assignment raises, the fallback:
\* the first run is cleared (its properties stay), takes a page break and
\* its text again; a paragraph without runs takes a new run with the break
add_page_break_before(paragraph) ==
  IF ~paragraph.page_break_raises
  THEN [paragraph EXCEPT !.page_break_before = TRUE]
  ELSE IF paragraph.runs # <<>>
       THEN [paragraph EXCEPT !.runs[1].page_break = TRUE,
                              !.drawing = IF Len(paragraph.runs) = 1 THEN FALSE ELSE @]
       ELSE [paragraph EXCEPT !.runs = << [NewRun(<<>>) EXCEPT !.page_break = TRUE] >>]

set_line_spacing(paragraph, line_spacing) ==
  IF line_spacing \in DOMAIN LINE_SPACING_MAP
  THEN [paragraph EXCEPT !.line_spacing_rule = LINE_SPACING_MAP[line_spacing]]
  ELSE paragraph

format_h1(paragraph, h1_count_before) ==
  LET config == requirements.h1_formatting
      p1 == IF config.text_transform = "uppercase"
            THEN make_text_uppercase(paragraph, config) ELSE paragraph
      p2 == apply_font_formatting(p1, config)
      p3 == IF config.page_break_before /\ h1_count_before > 0
            THEN add_page_break_before(p2) ELSE p2
  IN  [p3 EXCEPT !.alignment = ALIGN_MAP[config.alignment],
                 !.space_before = Pt(config.space_before_pt),
                 !.space_after = Pt(config.space_after_pt),
                 !.first_line_indent = Cm(0),
                 !.left_indent = Cm(0),
                 !.right_indent = Cm(0),
                 !.line_spacing_rule = LINE_SPACING_MAP[10]]

\* format_h2, format_h3 and format_h4 differ in the block they read
format_subheading(paragraph, config) ==
  [apply_font_formatting(paragraph, config) EXCEPT
     !.alignment = ALIGN_MAP[config.alignment],
     !.space_before = Pt(config.space_before_pt),
     !.space_after = Pt(config.space_after_pt),
     !.left_indent = Cm(IF Has(config, "paragraph_indent_cm")
                        THEN config.paragraph_indent_cm ELSE 0)]
format_h2(paragraph) == format_subheading(paragraph, requirements.h2_formatting)
format_h3(paragraph) == format_subheading(paragraph, requirements.h3_formatting)
format_h4(paragraph) == format_subheading(paragraph, requirements.h4_formatting)

format_list(paragraph) ==
  LET config == requirements.lists.bullet_lists
      p1 == apply_font_formatting(paragraph,
              [font_name |-> config.font.name, font_size |-> config.font.size])
      p2 == [p1 EXCEPT !.alignment = ALIGN_MAP[config.alignment],
                       !.left_indent = Cm(config.indent_cm)]
  IN  set_line_spacing(p2, config.font.line_spacing)

format_regular(paragraph) ==
  IF Strip(ParagraphText(paragraph)) = <<>> THEN paragraph
  ELSE LET config == requirements.base_formatting
           p1 == apply_font_formatting(paragraph, config)
           p2 == [p1 EXCEPT !.alignment = ALIGN_MAP[config.text_alignment],
                            !.first_line_indent = Cm(config.paragraph_indent_cm)]
           p3 == set_line_spacing(p2, config.line_spacing)
       IN  [p3 EXCEPT !.space_before = Pt(0), !.space_after = Pt(0),
                      !.left_indent = Cm(0), !.right_indent = Cm(0)]

\* the title layout shared by format_references_header (with the h1 block)
\* and format_special_section("references") (with the references title block)
format_title(paragraph, config) ==
  LET p1 == apply_font_formatting(paragraph, config)
      p2 == IF config.text_transform = "uppercase"
            THEN make_text_uppercase(p1, config) ELSE p1
      p3 == [p2 EXCEPT !.alignment = ALIGN_MAP[config.alignment],
                       !.space_before = Pt(config.space_before_pt),
                       !.space_after = Pt(config.space_after_pt),
                       !.first_line_indent = Cm(0),
                       !.left_indent = Cm(0),
                       !.right_indent = Cm(0),
                       !.line_spacing_rule = LINE_SPACING_MAP[10]]
  IN  IF config.page_break_before THEN add_page_break_before(p3) ELSE p3

format_references_header(paragraph) ==
  format_title(paragraph, requirements.h1_formatting)

\* format_bibliography_entry and format_bibliography_continuation differ in
\* the first-line indent
format_bibliography(paragraph, first_line_indent_cm) ==
  LET config == requirements.special_sections.references.content
      p1 == apply_font_formatting(paragraph, config)
      p2 == [p1 EXCEPT !.alignment = ALIGN_MAP[config.alignment],
                       !.first_line_indent = Cm(first_line_indent_cm),
                       !.left_indent = Cm(0)]
      p3 == set_line_spacing(p2, config.line_spacing)
  IN  [p3 EXCEPT !.space_before = Pt(IF Has(config, "space_before_pt")
                                     THEN config.space_before_pt ELSE 0),
                 !.space_after = Pt(IF Has(config, "space_after_pt")
                                    THEN config.space_after_pt ELSE 0)]
format_bibliography_entry(paragraph) ==
  format_bibliography(paragraph,
                      requirements.special_sections.references.content.paragraph_indent_cm)
\* variant: a continuation line takes the first-line indent of an entry
format_bibliography_continuation_indented(paragraph) == format_bibliography_entry(paragraph)
format_bibliography_continuation(paragraph) == format_bibliography(paragraph, 0)
format_references_text(paragraph) == format_bibliography_entry(paragraph)

format_special_section(paragraph, section_name) ==
  IF section_name \in DOMAIN requirements.special_sections
  THEN LET config == requirements.special_sections[section_name] IN
       IF section_name = "references"
       THEN format_title(paragraph, config.title)
       ELSE LET p1 == apply_font_formatting(paragraph, config)
                p2 == [p1 EXCEPT !.alignment = ALIGN_MAP[config.alignment],
                                 !.first_line_indent = Cm(config.paragraph_indent_cm)]
                p3 == set_line_spacing(p2, config.line_spacing)
            IN  [p3 EXCEPT !.space_before = Pt(0), !.space_after = Pt(0)]
  ELSE format_regular(paragraph)

\* format_table_caption and format_figure_caption differ in the block
format_caption(paragraph, config) ==
  LET p1 == apply_font_formatting(paragraph, config)
      p2 == [p1 EXCEPT !.alignment = ALIGN_MAP[config.alignment],
                       !.space_before = Pt(config.spacing.before_pt),
                       !.space_after = Pt(config.spacing.after_pt),
                       !.first_line_indent = Cm(0),
                       !.left_indent = Cm(0),
                       !.right_indent = Cm(0)]
  IN  set_line_spacing(p2, IF Has(config, "line_spacing") THEN config.line_spacing ELSE 10)
format_table_caption(paragraph) == format_caption(paragraph, requirements.tables.caption)
format_figure_caption(paragraph) == format_caption(paragraph, requirements.figures.caption)

\* alignment, spacing and zero indents; format_figure_image sets no font
format_centered_block(paragraph, config) ==
  [paragraph EXCEPT !.alignment = ALIGN_MAP[config.alignment],
                    !.space_before = Pt(config.spacing.before_pt),
                    !.space_after = Pt(config.spacing.after_pt),
                    !.first_line_indent = Cm(0),
                    !.left_indent = Cm(0),
                    !.right_indent = Cm(0)]
format_figure_image(paragraph) ==
  format_centered_block(paragraph, requirements.figures.image)
format_formula(paragraph) ==
  format_centered_block(apply_font_formatting(paragraph, requirements.formulas.formula),
                        requirements.formulas.formula)
format_formula_numbering(paragraph) ==
  format_centered_block(apply_font_formatting(paragraph, requirements.formulas.numbering),
                        requirements.formulas.numbering)

format_formula_explanation(paragraph) ==
  LET config == requirements.formulas.variables_explanation
      p1 == apply_font_formatting(paragraph, config)
      p2 == [p1 EXCEPT !.alignment = ALIGN_MAP[config.alignment],
                       !.first_line_indent = Cm(config.indent_cm),
                       !.left_indent = Cm(0),
                       !.right_indent = Cm(0)]
      p3 == set_line_spacing(p2, IF Has(config, "line_spacing")
                                 THEN config.line_spacing ELSE 15)
  IN  [p3 EXCEPT !.space_before = Pt(config.spacing.before_pt),
                 !.space_after = Pt(config.spacing.after_pt)]

\* format_table: the table, then the paragraphs of its cells (row 1 is the header)
format_table_cell(paragraph, is_header) ==
  IF Strip(ParagraphText(paragraph)) = <<>> THEN paragraph
  ELSE LET config == IF is_header THEN requirements.tables.header
                     ELSE requirements.tables.content
           p1 == apply_font_formatting(paragraph, config)
           p2 == [p1 EXCEPT !.alignment = ALIGN_MAP[config.alignment],
                            !.first_line_indent = Cm(0),
                            !.left_indent = Cm(0),
                            !.right_indent = Cm(0),
                            !.space_before = Pt(0),
                            !.space_after = Pt(0)]
       IN  set_line_spacing(p2, IF Has(requirements.tables.content, "line_spacing")
                                THEN requirements.tables.content.line_spacing ELSE 10)
format_table(table_element) ==
  LET config == requirements.tables.table IN
  [alignment |-> IF config.alignment = "center" THEN "CENTER"
                 ELSE IF config.alignment = "left" THEN "LEFT"
                 ELSE table_element.alignment,
   autofit |-> IF config.width_auto THEN TRUE ELSE table_element.autofit,
   rows |-> [i \in 1..Len(table_element.rows) |->
               [j \in 1..Len(table_element.rows[i]) |->
                  format_table_cell(table_element.rows[i][j], i = 1)]]]

(***************************************************************************)
(* StatisticsTracker                                                       *)
(***************************************************************************)
StatisticsTracker_init ==
  [k \in {"total_paragraphs", "skipped_paragraphs", "h1_formatted", "h2_formatted",
          "h3_formatted", "h4_formatted", "lists_formatted", "regular_formatted",
          "references_headers_formatted", "bibliography_entries_formatted",
          "bibliography_continuations_formatted", "references_text_formatted",
          "special_abstract_formatted", "special_annotation_formatted",
          "special_introduction_formatted", "special_conclusion_formatted",
          "table_captions_formatted", "table_content_formatted", "tables_formatted",
          "figure_images_formatted", "figure_captions_formatted", "formulas_formatted",
          "errors"} |-> 0]

\* variant: a name the tracker does not hold yet is not counted
increment_known(counters, stat_name) ==
  IF stat_name \in DOMAIN counters
  THEN [counters EXCEPT ![stat_name] = @ + 1]
  ELSE counters
increment(counters, stat_name) ==
  IF stat_name \in DOMAIN counters
  THEN [counters EXCEPT ![stat_name] = @ + 1]
  ELSE counters @@ (stat_name :> 1)

\* variant: the contents section counts as detected while the scan is in it
get_statistics_in_contents(counters, st) ==
  [stats |-> counters,
   title_pages_detected |-> IF st.found_main_content THEN 1 ELSE 0,
   main_content_found |-> st.found_main_content,
   contents_section_detected |-> st.in_contents_section,
   references_section_detected |-> st.in_references_section]
get_statistics(counters, st) ==
  [stats |-> counters,
   title_pages_detected |-> IF st.found_main_content THEN 1 ELSE 0,
   main_content_found |-> st.found_main_content,
   contents_section_detected |-> ~st.in_contents_section /\ st.found_main_content,
   references_section_detected |-> st.in_references_section]

(***************************************************************************)
(* VKRFormatter: the dispatch on the role                                  *)
(***************************************************************************)
Roles ==
  {"skip", "h1", "h2", "h3", "h4", "list", "regular", "references_header",
   "bibliography_entry", "bibliography_continuation", "references_text",
   "table_caption", "figure_caption", "figure_image", "formula",
   "formula_numbering", "formula_explanation", "special_abstract",
   "special_annotation", "special_introduction", "special_conclusion",
   "special_references"}

\* paragraph_type.replace("special_", "")
section_name_of(paragraph_type) ==
  CASE paragraph_type = "special_abstract" -> "abstract"
    [] paragraph_type = "special_annotation" -> "annotation"
    [] paragraph_type = "special_introduction" -> "introduction"
    [] paragraph_type = "special_conclusion" -> "conclusion"
    [] paragraph_type = "special_references" -> "references"

\* the formatter operation of each branch of _apply_paragraph_formatting
formatter_call(paragraph, paragraph_type, h1_count_before) ==
  CASE paragraph_type = "skip" -> paragraph
    [] paragraph_type = "h1" -> format_h1(paragraph, h1_count_before)
    [] paragraph_type = "h2" -> format_h2(paragraph)
    [] paragraph_type = "h3" -> format_h3(paragraph)
    [] paragraph_type = "h4" -> format_h4(paragraph)
    [] paragraph_type = "list" -> format_list(paragraph)
    [] paragraph_type = "references_header" -> format_references_header(paragraph)
    [] paragraph_type = "bibliography_entry" -> format_bibliography_entry(paragraph)
    [] paragraph_type = "bibliography_continuation" ->
         format_bibliography_continuation(paragraph)
    [] paragraph_type = "references_text" -> format_references_text(paragraph)
    [] paragraph_type \in {"special_abstract", "special_annotation",
                           "special_introduction", "special_conclusion",
                           "special_references"} ->
         format_special_section(paragraph, section_name_of(paragraph_type))
    [] paragraph_type = "table_caption" -> format_table_caption(paragraph)
    [] paragraph_type = "figure_image" -> format_figure_image(paragraph)
    [] paragraph_type = "figure_caption" -> format_figure_caption(paragraph)
    [] paragraph_type = "formula" -> format_formula(paragraph)
    [] paragraph_type = "formula_numbering" -> format_formula_numbering(paragraph)
    [] paragraph_type = "formula_explanation" -> format_formula_explanation(paragraph)
    [] OTHER -> format_regular(paragraph)

\* the counter each branch increments
stat_name_of(paragraph_type) ==
  CASE paragraph_type = "skip" -> "skipped_paragraphs"
    [] paragraph_type = "h1" -> "h1_formatted"
    [] paragraph_type = "h2" -> "h2_formatted"
    [] paragraph_type = "h3" -> "h3_formatted"
    [] paragraph_type = "h4" -> "h4_formatted"
    [] paragraph_type = "list" -> "lists_formatted"
    [] paragraph_type = "references_header" -> "references_headers_formatted"
    [] paragraph_type = "bibliography_entry" -> "bibliography_entries_formatted"
    [] paragraph_type = "bibliography_continuation" ->
         "bibliography_continuations_formatted"
    [] paragraph_type = "references_text" -> "references_text_formatted"
    [] paragraph_type = "special_abstract" -> "special_abstract_formatted"
    [] paragraph_type = "special_annotation" -> "special_annotation_formatted"
    [] paragraph_type = "special_introduction" -> "special_introduction_formatted"
    [] paragraph_type = "special_conclusion" -> "special_conclusion_formatted"
    [] paragraph_type = "special_references" -> "special_references_formatted"
    [] paragraph_type = "table_caption" -> "table_captions_formatted"
    [] paragraph_type = "figure_image" -> "figure_images_formatted"
    [] paragraph_type = "figure_caption" -> "figure_captions_formatted"
    [] paragraph_type = "formula" -> "formulas_formatted"
    [] paragraph_type = "formula_numbering" -> "formula_numbering_formatted"
    [] paragraph_type = "formula_explanation" -> "formula_explanations_formatted"
    [] OTHER -> "regular_formatted"

\* variant: an h1 whose formatting raises is taken out of the count again
apply_paragraph_formatting_rolled_back(paragraph, paragraph_type, h1_count_now, counters, raised) ==
  LET count == IF paragraph_type = "h1" THEN h1_count_now + 1 ELSE h1_count_now IN
  IF raised
  THEN [paragraph |-> paragraph, h1_count |-> h1_count_now, stats |-> counters,
        raised |-> TRUE]
  ELSE [paragraph |-> formatter_call(paragraph, paragraph_type, count - 1),
        h1_count |-> count,
        stats |-> increment(counters, stat_name_of(paragraph_type)),
        raised |-> FALSE]

\* variant: format_h1 is handed the count with this heading in it
apply_paragraph_formatting_counted(paragraph, paragraph_type, h1_count_now, counters, raised) ==
  LET count == IF paragraph_type = "h1" THEN h1_count_now + 1 ELSE h1_count_now IN
  IF raised
  THEN [paragraph |-> paragraph, h1_count |-> count, stats |-> counters, raised |-> TRUE]
  ELSE [paragraph |-> formatter_call(paragraph, paragraph_type, count),
        h1_count |-> count,
        stats |-> increment(counters, stat_name_of(paragraph_type)),
        raised |-> FALSE]

\* _apply_paragraph_formatting; raised: the formatter operation raises at its
\* first statement, the paragraph as it was
apply_paragraph_formatting(paragraph, paragraph_type, h1_count_now, counters, raised) ==
  LET count == IF paragraph_type = "h1" THEN h1_count_now + 1 ELSE h1_count_now IN
  IF raised
  THEN [paragraph |-> paragraph, h1_count |-> count, stats |-> counters, raised |-> TRUE]
  ELSE [paragraph |-> formatter_call(paragraph, paragraph_type, count - 1),
        h1_count |-> count,
        stats |-> increment(counters, stat_name_of(paragraph_type)),
        raised |-> FALSE]

(***************************************************************************)
(* Documents                                                               *)
(***************************************************************************)
MaxParas == 4
MaxTables == 2
\* the paragraphs of a document that has tables or whose global settings fail
MaxTableDocParas == 1
\* the page sections of a document
MaxSections == 2

\* a length, an alignment or a rule the document does not give
UNSET == 0 - 1
\* a paragraph of the input document: its text in one run, or no run;
\* page_break_raises: assigning page_break_before to its format raises
Paragraph(text, style, drawing, page_break_before) ==
  [style |-> style, drawing |-> drawing, page_break_raises |-> FALSE,
   runs |-> IF text = <<>> /\ ~drawing THEN <<>> ELSE <<NewRun(text)>>,
   alignment |-> "NONE", first_line_indent |-> UNSET, left_indent |-> UNSET,
   right_indent |-> UNSET, space_before |-> UNSET, space_after |-> UNSET,
   line_spacing_rule |-> "NONE", page_break_before |-> page_break_before]

Table(rows) == [alignment |-> "NONE", autofit |-> FALSE, rows |-> rows]

\* the vocabularies documents are written in: the paragraphs of the front
\* matter, of a list of references, the content elements, the headings and
\* the special sections
Vocabularies ==
  << {Paragraph(T_EMPTY, S_NORMAL, FALSE, FALSE),
      Paragraph(T_TITLE_PAGE, S_NORMAL, FALSE, FALSE),
      Paragraph(T_CONTENTS_HEADER, S_NORMAL, FALSE, FALSE),
      Paragraph(T_CONTENTS_LINE, S_NORMAL, FALSE, FALSE),
      Paragraph(T_CHAPTER, S_NORMAL, FALSE, FALSE)},
     {Paragraph(T_INTRODUCTION, S_HEADING1, FALSE, FALSE),
      Paragraph(T_REFERENCES, S_HEADING1, FALSE, FALSE),
      Paragraph(T_BIB_AUTHOR, S_BODY, FALSE, FALSE),
      Paragraph(T_BIB_PLAIN, S_BODY, FALSE, FALSE),
      Paragraph(T_BIB_CONT, S_BODY, FALSE, FALSE),
      Paragraph(T_CONTENTS_HEADER, S_BODY, FALSE, FALSE)},
     {Paragraph(T_CHAPTER, S_NORMAL, FALSE, FALSE),
      Paragraph(T_TABLE, S_NORMAL, FALSE, FALSE),
      Paragraph(T_FIGURE, S_NORMAL, FALSE, FALSE),
      Paragraph(T_NUMBERING, S_NORMAL, FALSE, FALSE),
      Paragraph(T_EXPLANATION, S_NORMAL, FALSE, FALSE),
      Paragraph(T_FORMULA, S_NORMAL, FALSE, FALSE),
      Paragraph(T_IMAGE, S_NORMAL, FALSE, FALSE),
      Paragraph(T_BODY, S_NORMAL, TRUE, FALSE)},
     {Paragraph(T_CHAPTER, S_HEADING1, FALSE, FALSE),
      Paragraph(T_CHAPTER, S_HEADING1, FALSE, TRUE),
      Paragraph(T_SUBSECTION, S_HEADING2, FALSE, FALSE),
      Paragraph(T_SUBSECTION, S_NORMAL, FALSE, FALSE),
      Paragraph(T_BODY, S_HEADING3, FALSE, FALSE),
      Paragraph(T_BODY, S_HEADING4, FALSE, FALSE),
      Paragraph(T_BODY, S_LIST, FALSE, FALSE),
      Paragraph(T_BODY, S_NORMAL, FALSE, FALSE)},
     {Paragraph(T_INTRODUCTION, S_HEADING1, FALSE, FALSE),
      Paragraph(T_CONCLUSION, S_HEADING1, FALSE, FALSE),
      Paragraph(T_ABSTRACT, S_H1_CHAR, FALSE, FALSE),
      Paragraph(T_ANNOTATION, S_HEADING1, FALSE, FALSE),
      Paragraph(T_CONCLUSION, S_NONE, FALSE, FALSE),
      Paragraph(T_BODY, S_H1_CHAR, FALSE, FALSE)},
     {Paragraph(T_CHAPTER, S_HEADING1, FALSE, FALSE),
      Paragraph(T_EMPTY, S_NORMAL, TRUE, FALSE),
      Paragraph(T_BODY, S_HEADING2, TRUE, FALSE),
      Paragraph(T_FIGURE, S_HEADING2, FALSE, FALSE)} >>

CELL_HEADER == Paragraph(T_TABLE, S_NORMAL, FALSE, FALSE)
CELL_BODY == Paragraph(T_BODY, S_NORMAL, FALSE, FALSE)
CELL_EMPTY == Paragraph(T_EMPTY, S_NORMAL, FALSE, FALSE)
Tables ==
  {Table(<< <<CELL_HEADER, CELL_EMPTY>>, <<CELL_BODY, CELL_BODY>> >>),
   Table(<< <<CELL_HEADER>> >>)}

\* the page margins of a section, in the twentieths of a point the document
\* stores them in, and the font of the Normal style of a new document
DocumentDefaults ==
  [margins |-> [top |-> 1440, bottom |-> 1440, left |-> 1800, right |-> 1800],
   normal_font |-> [name |-> "Calibri", size |-> Pt(11)]]

(***************************************************************************)
(* format_vkr_document: one VKRFormatter formats one document              *)
(***************************************************************************)
VARIABLES
  input_file,         \* the input file: "missing", "unreadable" or "loaded"
  pc,                 \* "constructed", "paragraphs", "tables", "done"
  use_style_based,    \* VKRFormatter.use_style_based
  strict_style_mode,  \* StyleBasedClassifier.strict_style_mode
  state,              \* classifier.state, a DocumentState
  h1_count,           \* VKRFormatter.h1_count
  stats,              \* StatisticsTracker.stats
  vocabulary,         \* the vocabulary of the loaded document
  n_paragraphs,       \* len(doc.paragraphs)
  n_tables,           \* len(doc.tables)
  margins,            \* the stored margins of the sections of the document
  normal_font,        \* doc.styles['Normal'].font
  idx,                \* paragraphs the paragraph pass has visited
  last,               \* the paragraph visited last: as it was, its role, as it is,
                      \* and what the formatter held when it was visited
  t_idx,              \* tables the table pass has visited
  last_table,         \* the table visited last: as it was, as it is
  outcome,            \* what format_vkr_document returns
  stages,             \* the stages format_document has entered, in order
  failed,             \* what has raised so far: in the global settings, in how many
                      \* paragraphs and tables, in the save
  bench,              \* a paragraph a formatter operation is applied to repeatedly
  calls,              \* the format_document calls made on the VKRFormatter
  pair                \* a ParagraphClassifier and a StyleBasedClassifier given the
                      \* same paragraphs: their states and what they returned last

vars ==
  << input_file, pc, use_style_based, strict_style_mode, state, h1_count, stats, vocabulary,
     n_paragraphs, n_tables, margins, normal_font, idx, last, t_idx, last_table,
     outcome, stages, failed, bench, calls, pair, requirements >>

NO_PARAGRAPH == Paragraph(T_EMPTY, S_NONE, FALSE, FALSE)
NO_TABLE == Table(<<>>)
NOTHING_FAILED == [settings |-> "none", items |-> 0, tables |-> 0, save |-> FALSE]
\* two classifiers as constructed, nothing classified
NO_PAIR ==
  [paragraph |-> NO_PARAGRAPH, pattern |-> Result("none", DocumentState_init),
   style |-> Result("none", DocumentState_init), classified |-> 0]

Init ==
  /\ input_file \in {"missing", "unreadable", "loaded"}
  /\ pc = "constructed"
  /\ use_style_based \in BOOLEAN
  /\ strict_style_mode \in BOOLEAN
  /\ strict_style_mode => use_style_based
  /\ state = DocumentState_init
  /\ h1_count = 0
  /\ stats = StatisticsTracker_init
  /\ vocabulary = 1
  /\ n_paragraphs = 0
  /\ n_tables = 0
  /\ margins = << DocumentDefaults.margins >>
  /\ normal_font = DocumentDefaults.normal_font
  /\ idx = 0
  /\ last = [before |-> NO_PARAGRAPH, after |-> NO_PARAGRAPH,
             state_before |-> DocumentState_init, role |-> "none",
             raised |-> "none", h1_count_before |-> 0, h1_seen_before |-> 0]
  /\ t_idx = 0
  /\ last_table = [before |-> NO_TABLE, after |-> NO_TABLE, raised |-> FALSE]
  /\ outcome = [returned |-> FALSE, success |-> FALSE,
                statistics |-> get_statistics(StatisticsTracker_init, DocumentState_init)]
  /\ stages = <<>>
  /\ failed = NOTHING_FAILED
  /\ requirements = get_default_vkr_requirements
  /\ bench = [paragraph |-> NO_PARAGRAPH, previous |-> NO_PARAGRAPH, role |-> "none",
              h1_count_before |-> 0, applied |-> 0]
  /\ pair = NO_PAIR
  /\ calls = 1

\* _configure_default_styles; raised: it raises at styles['Normal'], which its
\* own except clause logs
configure_default_styles(font, base_config, raised) ==
  IF raised THEN font
  ELSE [name |-> base_config.font_name, size |-> Pt(base_config.font_size)]

\* a length written to a margin attribute of a section: the document keeps
\* margins in twentieths of a point, 635 EMU each, rounded to the nearest
Twips(emu) == (2 * emu + 635) \div 1270
\* a margin attribute of a section read: the length in EMU
FromTwips(twips) == twips * 635

\* section.top_margin = Cm(margins["top"]) and the three assignments after it
set_section_margins(margins_cm) ==
  [top |-> Twips(Cm(margins_cm.top)), bottom |-> Twips(Cm(margins_cm.bottom)),
   left |-> Twips(Cm(margins_cm.left)), right |-> Twips(Cm(margins_cm.right))]

\* variant: the margins the sections took are written back to the requirements
apply_global_settings_writing_back(sections, fault) ==
  LET base_config == requirements.base_formatting IN
  [margins |-> [k \in 1..Len(sections) |-> set_section_margins(base_config.margins_cm)],
   normal_font |-> configure_default_styles(normal_font, base_config, fault = "font"),
   stats |-> IF fault = "margins" THEN increment(stats, "errors") ELSE stats,
   requirements |-> [requirements EXCEPT !.base_formatting.margins_cm.top = 0]]

\* variant: only the first section of the document takes the margins
apply_global_settings_first_section(sections, fault) ==
  LET base_config == requirements.base_formatting IN
  IF fault = "margins"
  THEN [margins |-> sections, normal_font |-> normal_font,
        stats |-> increment(stats, "errors"), requirements |-> requirements]
  ELSE [margins |-> [k \in 1..Len(sections) |->
                       IF k = 1 THEN set_section_margins(base_config.margins_cm)
                       ELSE sections[k]],
        normal_font |-> configure_default_styles(normal_font, base_config,
                                                 fault = "font"),
        stats |-> stats, requirements |-> requirements]

\* _apply_global_settings on a document of the given sections; fault: "margins"
\* when the first margin assignment raises, "font" when
\* _configure_default_styles raises
apply_global_settings(sections, fault) ==
  LET base_config == requirements.base_formatting IN
  IF fault = "margins"
  THEN [margins |-> sections, normal_font |-> normal_font,
        stats |-> increment(stats, "errors"), requirements |-> requirements]
  ELSE [margins |-> [k \in 1..Len(sections) |->
                       set_section_margins(base_config.margins_cm)],
        normal_font |-> configure_default_styles(normal_font, base_config,
                                                 fault = "font"),
        stats |-> stats, requirements |-> requirements]

\* the stages format_document calls one after the other
STAGES == << "LOAD", "APPLY_GLOBAL_SETTINGS", "SCAN_PARAGRAPHS", "SCAN_TABLES", "SAVE" >>

\* variant: a run that fails returns nothing
return_value_of_success(success) ==
  IF success
  THEN [returned |-> TRUE, success |-> TRUE, statistics |-> get_statistics(stats, state)]
  ELSE outcome

\* what format_vkr_document returns: what format_document returned, and
\* formatter.get_statistics()
return_value(success) ==
  [returned |-> TRUE, success |-> success, statistics |-> get_statistics(stats, state)]

\* format_document up to the paragraph pass. The input file is "missing" when
\* it does not exist and "unreadable" when Document(input_path) raises
LoadDocument(voc, paragraphs, tables, sections, fault) ==
  /\ pc = "constructed"
  /\ tables > 0 => paragraphs <= MaxTableDocParas
  /\ (sections > 1 \/ fault # "none") => paragraphs <= MaxTableDocParas /\ tables = 0
  /\ IF input_file = "loaded"
     THEN LET g == apply_global_settings([k \in 1..sections |-> DocumentDefaults.margins],
                                         fault) IN
          /\ pc' = IF paragraphs > 0 THEN "paragraphs" ELSE "tables"
          /\ vocabulary' = voc
          /\ n_paragraphs' = paragraphs
          /\ n_tables' = tables
          /\ margins' = g.margins
          /\ normal_font' = g.normal_font
          /\ stats' = g.stats
          /\ requirements' = g.requirements
          /\ stages' = SubSeq(STAGES, 1, IF paragraphs > 0 THEN 3 ELSE 4)
          /\ failed' = [failed EXCEPT !.settings = fault]
          /\ UNCHANGED outcome
     ELSE /\ fault = "none" /\ voc = 1 /\ paragraphs = 0 /\ tables = 0 /\ sections = 1
          /\ pc' = "done"
          /\ outcome' = return_value(FALSE)
          /\ stages' = IF input_file = "unreadable" THEN SubSeq(STAGES, 1, 1) ELSE <<>>
          /\ UNCHANGED << vocabulary, n_paragraphs, n_tables, margins, normal_font, stats,
                          failed, requirements >>
  /\ UNCHANGED << input_file, use_style_based, strict_style_mode, state, h1_count, idx,
                  last, t_idx, last_table, bench, calls, pair >>

\* one iteration of the loop of _process_all_paragraphs; fault: where the
\* iteration raises ("classify": at paragraph.text, "format": in the formatter)
classify(st, paragraph, text) ==
  IF use_style_based
  THEN classify_paragraph_by_style(st, paragraph, text, V(Strip(text)),
                                   SV(get_paragraph_style_name(paragraph)),
                                   strict_style_mode)
  ELSE classify_paragraph(st, text, V(Strip(text)))

\* variant: the except clause counts nothing
except_paragraph_silent(counters) == counters

\* the except clause of the iteration
except_paragraph(counters) == increment(counters, "errors")

\* the paragraphs before this one that were classified h1
h1_seen == last.h1_seen_before + (IF last.role = "h1" THEN 1 ELSE 0)

ProcessParagraph(paragraph, fault) ==
  /\ pc = "paragraphs"
  /\ IF fault = "classify"
     THEN /\ stats' = except_paragraph(increment(stats, "total_paragraphs"))
          /\ last' = [before |-> paragraph, after |-> paragraph,
                      state_before |-> state, role |-> "none",
                      raised |-> fault, h1_count_before |-> h1_count,
                      h1_seen_before |-> h1_seen]
          /\ UNCHANGED << state, h1_count >>
     ELSE \E c \in {classify(state, paragraph, Strip(ParagraphText(paragraph)))} :
          \E f \in {apply_paragraph_formatting(paragraph, c.role, h1_count,
                                               increment(stats, "total_paragraphs"),
                                               fault = "format")} :
            /\ fault = "format" => c.role # "skip"
            /\ state' = c.state
            /\ h1_count' = f.h1_count
            /\ stats' = IF f.raised THEN except_paragraph(f.stats) ELSE f.stats
            /\ last' = [before |-> paragraph, after |-> f.paragraph,
                        state_before |-> state, role |-> c.role,
                        raised |-> fault, h1_count_before |-> h1_count,
                        h1_seen_before |-> h1_seen]
  /\ idx' = idx + 1
  /\ pc' = IF idx + 1 = n_paragraphs THEN "tables" ELSE "paragraphs"
  /\ stages' = IF idx + 1 = n_paragraphs THEN Append(stages, STAGES[4]) ELSE stages
  /\ failed' = [failed EXCEPT !.items = IF fault = "none" THEN @ ELSE @ + 1]
  /\ UNCHANGED << input_file, use_style_based, strict_style_mode, vocabulary, n_paragraphs,
                  n_tables, margins, normal_font, t_idx, last_table, outcome, bench, calls, pair,
                  requirements >>

\* variant: a table that raises ends the table pass
ProcessTable_stopping(table, raised) ==
  /\ pc = "tables"
  /\ t_idx < n_tables
  /\ last_table' = [before |-> table,
                    after |-> IF raised THEN table ELSE format_table(table),
                    raised |-> raised]
  /\ stats' = increment(stats, IF raised THEN "errors" ELSE "tables_formatted")
  /\ t_idx' = IF raised THEN n_tables ELSE t_idx + 1
  /\ failed' = [failed EXCEPT !.items = IF raised THEN @ + 1 ELSE @,
                            !.tables = IF raised THEN @ + 1 ELSE @]
  /\ UNCHANGED << input_file, pc, use_style_based, strict_style_mode, state, h1_count, vocabulary,
                  n_paragraphs, n_tables, margins, normal_font, idx, last, outcome,
                  stages, bench, calls, pair, requirements >>

\* one iteration of the loop of _process_all_tables
ProcessTable(table, raised) ==
  /\ pc = "tables"
  /\ t_idx < n_tables
  /\ last_table' = [before |-> table,
                    after |-> IF raised THEN table ELSE format_table(table),
                    raised |-> raised]
  /\ stats' = increment(stats, IF raised THEN "errors" ELSE "tables_formatted")
  /\ t_idx' = t_idx + 1
  /\ failed' = [failed EXCEPT !.items = IF raised THEN @ + 1 ELSE @,
                            !.tables = IF raised THEN @ + 1 ELSE @]
  /\ UNCHANGED << input_file, pc, use_style_based, strict_style_mode, state, h1_count, vocabulary,
                  n_paragraphs, n_tables, margins, normal_font, idx, last, outcome,
                  stages, bench, calls, pair, requirements >>

\* variant: the document is saved as soon as the paragraph pass is over
SaveDocument_before_tables(saved) ==
  /\ pc = "tables"
  /\ pc' = "done"
  /\ outcome' = return_value(saved)
  /\ stages' = Append(stages, STAGES[5])
  /\ failed' = [failed EXCEPT !.save = ~saved]
  /\ UNCHANGED << input_file, use_style_based, strict_style_mode, state, h1_count, stats,
                  vocabulary, n_paragraphs, n_tables, margins, normal_font, idx, last,
                  t_idx, last_table, bench, calls, pair, requirements >>

\* doc.save, the look at the output file, and get_statistics
SaveDocument(saved) ==
  /\ pc = "tables"
  /\ t_idx = n_tables
  /\ pc' = "done"
  /\ outcome' = return_value(saved)
  /\ stages' = Append(stages, STAGES[5])
  /\ failed' = [failed EXCEPT !.save = ~saved]
  /\ UNCHANGED << input_file, use_style_based, strict_style_mode, state, h1_count, stats,
                  vocabulary, n_paragraphs, n_tables, margins, normal_font, idx, last,
                  t_idx, last_table, bench, calls, pair, requirements >>

Next ==
  \/ /\ pc = "constructed"
     /\ \E voc \in 1..Len(Vocabularies),
           paragraphs \in 0..MaxParas, tables \in 0..MaxTables,
           sections \in 1..MaxSections, fault \in {"none", "margins", "font"} :
          LoadDocument(voc, paragraphs, tables, sections, fault)
  \/ /\ pc = "paragraphs"
     /\ \E paragraph \in Vocabularies[vocabulary], fault \in {"none", "classify", "format"} :
          ProcessParagraph(paragraph, fault)
  \/ \E table \in Tables, raised \in BOOLEAN : ProcessTable(table, raised)
  \/ \E saved \in BOOLEAN : SaveDocument(saved)

Spec == Init /\ [][Next]_vars

(***************************************************************************)
(* The formatter operations on their own: one operation, with the same     *)
(* arguments, applied again and again to a paragraph of any shape          *)
(***************************************************************************)
MaxFormats == 2

\* "1. " and "Vvedenie    5" in two runs that carry fonts of their own
TWO_RUNS ==
  << [text |-> SubSeq(T_CONTENTS_LINE, 1, 3), font_name |-> "Arial",
      font_size |-> Pt(10), bold |-> TRUE, page_break |-> FALSE],
     [text |-> SubSeq(T_CONTENTS_LINE, 4, Len(T_CONTENTS_LINE)), font_name |-> "",
      font_size |-> 0, bold |-> FALSE, page_break |-> FALSE] >>

BenchParagraphs ==
  {Paragraph(T_BODY, S_NORMAL, FALSE, FALSE),
   Paragraph(T_BODY, S_NORMAL, TRUE, TRUE),
   Paragraph(T_EMPTY, S_NORMAL, FALSE, FALSE),
   Paragraph(T_EMPTY, S_NORMAL, TRUE, FALSE),
   Paragraph(<<32, 32>>, S_NORMAL, FALSE, FALSE),
   [Paragraph(T_EMPTY, S_HEADING1, FALSE, FALSE) EXCEPT !.runs = TWO_RUNS],
   [Paragraph(T_EMPTY, S_HEADING1, FALSE, TRUE) EXCEPT
      !.runs = TWO_RUNS, !.alignment = "RIGHT", !.first_line_indent = Cm(100),
      !.left_indent = Cm(50), !.right_indent = Cm(50), !.space_before = Pt(6),
      !.space_after = Pt(6), !.line_spacing_rule = "DOUBLE"],
   [Paragraph(T_BIB_CONT, S_BODY, FALSE, FALSE) EXCEPT
      !.first_line_indent = 0 - Cm(125), !.left_indent = Cm(125)],
   [Paragraph(T_SUBSECTION, S_HEADING1, FALSE, FALSE) EXCEPT !.page_break_raises = TRUE],
   [Paragraph(T_EMPTY, S_HEADING1, FALSE, FALSE) EXCEPT
      !.runs = TWO_RUNS, !.page_break_raises = TRUE],
   [Paragraph(T_EMPTY, S_NORMAL, FALSE, FALSE) EXCEPT !.page_break_raises = TRUE],
   format_regular(Paragraph(T_SUBSECTION, S_NORMAL, FALSE, FALSE)),
   format_h1(Paragraph(T_SUBSECTION, S_NORMAL, FALSE, FALSE), 1)}

FmtInit ==
  /\ input_file = "loaded"
  /\ pc = "constructed"
  /\ use_style_based = TRUE
  /\ strict_style_mode = FALSE
  /\ state = DocumentState_init
  /\ h1_count = 0
  /\ stats = StatisticsTracker_init
  /\ vocabulary = 1
  /\ n_paragraphs = 0
  /\ n_tables = 0
  /\ margins = << DocumentDefaults.margins >>
  /\ normal_font = DocumentDefaults.normal_font
  /\ idx = 0
  /\ last = [before |-> NO_PARAGRAPH, after |-> NO_PARAGRAPH,
             state_before |-> DocumentState_init, role |-> "none",
             raised |-> "none", h1_count_before |-> 0, h1_seen_before |-> 0]
  /\ t_idx = 0
  /\ last_table = [before |-> NO_TABLE, after |-> NO_TABLE, raised |-> FALSE]
  /\ outcome = [returned |-> FALSE, success |-> FALSE,
                statistics |-> get_statistics(StatisticsTracker_init, DocumentState_init)]
  /\ stages = <<>>
  /\ failed = NOTHING_FAILED
  /\ requirements = get_default_vkr_requirements
  /\ pair = NO_PAIR
  /\ calls = 1
  /\ \E paragraph \in BenchParagraphs :
       bench = [paragraph |-> paragraph, previous |-> paragraph, role |-> "none",
                h1_count_before |-> 0, applied |-> 0]

\* the operation of a role applied to the paragraph as the last application left it
Format(role, h1_count_before) ==
  /\ bench.applied < MaxFormats
  /\ bench.applied > 0 => role = bench.role /\ h1_count_before = bench.h1_count_before
  /\ role # "h1" => h1_count_before = 0
  /\ bench' = [paragraph |-> formatter_call(bench.paragraph, role, h1_count_before),
               previous |-> bench.paragraph, role |-> role,
               h1_count_before |-> h1_count_before, applied |-> bench.applied + 1]
  /\ UNCHANGED << input_file, pc, use_style_based, strict_style_mode, state, h1_count, stats,
                  vocabulary, n_paragraphs, n_tables, margins, normal_font, idx, last,
                  t_idx, last_table, outcome, stages, failed, calls, pair, requirements >>

FmtNext == \E role \in Roles \ {"skip"}, h1_count_before \in 0..MaxFormats :
             Format(role, h1_count_before)

FmtSpec == FmtInit /\ [][FmtNext]_vars

(***************************************************************************)
(* The two classifiers side by side: a ParagraphClassifier and a           *)
(* StyleBasedClassifier, each with a DocumentState of its own, are given   *)
(* the same paragraphs in the same order                                   *)
(***************************************************************************)
MaxPairParas == 3

\* the paragraphs of every vocabulary, and one whose text is blanks only
PairParagraphs ==
  UNION {Vocabularies[v] : v \in 1..Len(Vocabularies)}
    \cup {Paragraph(<<32, 32>>, S_HEADING2, FALSE, FALSE)}

PairInit ==
  /\ input_file = "loaded"
  /\ pc = "constructed"
  /\ use_style_based = TRUE
  /\ strict_style_mode \in BOOLEAN
  /\ state = DocumentState_init
  /\ h1_count = 0
  /\ stats = StatisticsTracker_init
  /\ vocabulary = 1
  /\ n_paragraphs = 0
  /\ n_tables = 0
  /\ margins = << DocumentDefaults.margins >>
  /\ normal_font = DocumentDefaults.normal_font
  /\ idx = 0
  /\ last = [before |-> NO_PARAGRAPH, after |-> NO_PARAGRAPH,
             state_before |-> DocumentState_init, role |-> "none",
             raised |-> "none", h1_count_before |-> 0, h1_seen_before |-> 0]
  /\ t_idx = 0
  /\ last_table = [before |-> NO_TABLE, after |-> NO_TABLE, raised |-> FALSE]
  /\ outcome = [returned |-> FALSE, success |-> FALSE,
                statistics |-> get_statistics(StatisticsTracker_init, DocumentState_init)]
  /\ stages = <<>>
  /\ failed = NOTHING_FAILED
  /\ requirements = get_default_vkr_requirements
  /\ bench = [paragraph |-> NO_PARAGRAPH, previous |-> NO_PARAGRAPH, role |-> "none",
              h1_count_before |-> 0, applied |-> 0]
  /\ pair = NO_PAIR
  /\ calls = 1

\* classify_paragraph(text) and classify_paragraph_by_style(paragraph, text)
\* on the text of one paragraph, each from the state its classifier is in
ClassifyBoth(paragraph) ==
  /\ pair.classified < MaxPairParas
  /\ LET text == ParagraphText(paragraph)
         tests == V(Strip(text))
     IN  pair' = [paragraph |-> paragraph,
                  pattern |-> classify_paragraph(pair.pattern.state, text, tests),
                  style |-> classify_paragraph_by_style(
                              pair.style.state, paragraph, text, tests,
                              SV(get_paragraph_style_name(paragraph)), strict_style_mode),
                  classified |-> pair.classified + 1]
  /\ UNCHANGED << input_file, pc, use_style_based, strict_style_mode, state, h1_count, stats,
                  vocabulary, n_paragraphs, n_tables, margins, normal_font, idx, last,
                  t_idx, last_table, outcome, stages, failed, bench, calls, requirements >>

PairNext == \E paragraph \in PairParagraphs : ClassifyBoth(paragraph)

PairSpec == PairInit /\ [][PairNext]_vars

(***************************************************************************)
(* One VKRFormatter used for several documents: format_document is called  *)
(* again on the instance once the call before it has returned.  The        *)
(* classifier, its DocumentState, the StatisticsTracker and h1_count are   *)
(* made in __init__ and format_document assigns none of them.              *)
(***************************************************************************)
MaxCalls == 2
MaxReuseParas == 1

\* the next format_document call on the same instance, with a document of its own
FormatAgain(file) ==
  /\ pc = "done"
  /\ calls < MaxCalls
  /\ calls' = calls + 1
  /\ pc' = "constructed"
  /\ input_file' = file
  /\ vocabulary' = 1
  /\ n_paragraphs' = 0
  /\ n_tables' = 0
  /\ margins' = << DocumentDefaults.margins >>
  /\ normal_font' = DocumentDefaults.normal_font
  /\ idx' = 0
  /\ t_idx' = 0
  /\ last' = [before |-> NO_PARAGRAPH, after |-> NO_PARAGRAPH, state_before |-> state,
              role |-> "none", raised |-> "none", h1_count_before |-> h1_count,
              h1_seen_before |-> h1_seen]
  /\ last_table' = [before |-> NO_TABLE, after |-> NO_TABLE, raised |-> FALSE]
  /\ outcome' = [returned |-> FALSE, success |-> FALSE,
                 statistics |-> get_statistics(StatisticsTracker_init, DocumentState_init)]
  /\ stages' = <<>>
  /\ failed' = NOTHING_FAILED
  /\ UNCHANGED << use_style_based, strict_style_mode, state, h1_count, stats, bench, pair,
                  requirements >>

\* documents of one section without tables, whose global settings do not raise
ReuseNext ==
  \/ /\ pc = "constructed"
     /\ \E voc \in 1..Len(Vocabularies), paragraphs \in 0..MaxReuseParas :
          LoadDocument(voc, paragraphs, 0, 1, "none")
  \/ /\ pc = "paragraphs"
     /\ \E paragraph \in Vocabularies[vocabulary], fault \in {"none", "classify", "format"} :
          ProcessParagraph(paragraph, fault)
  \/ \E saved \in BOOLEAN : SaveDocument(saved)
  \/ \E file \in {"missing", "unreadable", "loaded"} : FormatAgain(file)

ReuseSpec == Init /\ [][ReuseNext]_vars

(***************************************************************************)
(* Properties                                                              *)
(***************************************************************************)
\* the text the paragraph pass read from the paragraph visited last
last_text == Strip(ParagraphText(last.before))
\* the paragraph visited last was classified
classified == idx > 0 /\ last.role # "none"

\* the scan states
MAIN(st) == st.found_main_content /\ ~st.in_contents_section
CONTENTS(st) == st.in_contents_section

\* C1: once found_main_content is true it is true after every later classify
\* call of the run, with the pattern-based and with the style-based classifier.
C1_FoundMainStays == last.state_before.found_main_content => state.found_main_content
\* a paragraph classified when the main content had been found already
C1_Witness ==
  /\ classified
  /\ use_style_based
  /\ last.state_before.found_main_content
  /\ last.state_before # state

\* C2: in_title_section and found_main_content are never both true.
C2_TitleOrMain == ~(state.in_title_section /\ state.found_main_content)
\* the classify call that found the main content
C2_Witness ==
  /\ classified
  /\ last.state_before.in_title_section
  /\ state.found_main_content

\* C3: once found_main_content is true no later paragraph puts the scan state
\* back into TITLE or CONTENTS: in_title_section and in_contents_section stay
\* false for the rest of the run.
C3_NoWayBack ==
  last.state_before.found_main_content =>
    ~state.in_title_section /\ ~state.in_contents_section

\* C4: with the style-based classifier, once in_references_section is true it
\* is true after every later classify call of the run.
C4_ReferencesStay ==
  use_style_based /\ last.state_before.in_references_section =>
    state.in_references_section

\* the roles of the enumeration
ParagraphRole ==
  {"skip", "h1", "h2", "h3", "h4", "list", "regular", "references_header",
   "bibliography_entry", "bibliography_continuation", "table_caption",
   "figure_caption", "figure_image", "formula", "formula_numbering",
   "formula_explanation", "special_abstract", "special_annotation",
   "special_introduction", "special_conclusion", "special_references"}

\* C5: classification returns one role of the enumeration; for the empty text
\* it returns skip and leaves the scan state as it was.
C5_OneRole ==
  classified =>
    /\ last.role \in ParagraphRole
    /\ last_text = <<>> => last.role = "skip" /\ state = last.state_before
\* an empty paragraph classified after the main content was found
C5_Witness ==
  /\ classified
  /\ last_text = <<>>
  /\ last.role = "skip"
  /\ state.found_main_content

\* C6: with page_break_before enabled for h1, the first paragraph classified
\* h1 is formatted without setting page_break_before and every later paragraph
\* classified h1 has page_break_before set.
C6_PageBreaks ==
  /\ requirements.h1_formatting.page_break_before
  /\ classified /\ last.role = "h1" /\ last.raised = "none" =>
       last.after.page_break_before =
         IF last.h1_seen_before = 0 THEN last.before.page_break_before ELSE TRUE
\* the third h1 of a document, formatted with a page break before it
C6_Witness ==
  /\ classified
  /\ last.role = "h1"
  /\ last.raised = "none"
  /\ last.h1_seen_before = 2
  /\ ~last.before.page_break_before
  /\ last.after.page_break_before

\* C7: with the style-based classifier in MAIN with in_references_section true,
\* "1. Ivanov I.I. Zagolovok. -- M., 2020." is classified bibliography_entry
\* and "-- 200 s." bibliography_continuation.
C7_Bibliography ==
  /\ use_style_based
  /\ classified
  /\ MAIN(last.state_before)
  /\ last.state_before.in_references_section
  /\ last.before.style = S_BODY
  => /\ last_text = T_BIB_AUTHOR => last.role = "bibliography_entry"
     /\ last_text = T_BIB_CONT => last.role = "bibliography_continuation"

\* C8: in CONTENTS "1. Vvedenie    5" is classified skip and the state stays
\* CONTENTS; "1. VVEDENIE" after it moves the state to MAIN and is classified h1.
C8_ContentsThenMain ==
  classified /\ CONTENTS(last.state_before) =>
    /\ last_text = T_CONTENTS_LINE => last.role = "skip" /\ state = last.state_before
    /\ last_text = T_CHAPTER =>
         /\ last.role = "h1"
         /\ state.found_main_content
         /\ ~state.in_contents_section
\* "1. VVEDENIE" classified in CONTENTS, two paragraphs or more before it
C8_Witness ==
  /\ classified
  /\ idx >= 3
  /\ CONTENTS(last.state_before)
  /\ ~last.state_before.found_main_content
  /\ last_text = T_CHAPTER
  /\ last.role = "h1"
  /\ MAIN(state)

\* C9: every formatter operation is idempotent: applied twice with the same
\* arguments it leaves the paragraph as one application left it.
C9_Idempotent == bench.applied >= 2 => bench.paragraph = bench.previous
\* format_h1 applied twice to a paragraph of two runs that it changed
C9_Witness ==
  /\ bench.applied = 2
  /\ bench.role = "h1"
  /\ bench.h1_count_before = 1
  /\ Len(bench.paragraph.runs) = 1
  /\ bench.paragraph.runs[1].text = Upper(T_CONTENTS_LINE)

\* C10: a paragraph whose classification or formatting raises adds one to
\* errors and the pass goes on with the next paragraph; every paragraph is
\* counted once in total_paragraphs, which is the paragraph count after the
\* pass however many paragraphs failed.
C10_RaisedStep ==
  idx' = idx + 1 =>
    /\ stats'["total_paragraphs"] = stats["total_paragraphs"] + 1
    /\ last'.raised # "none" =>
         /\ stats'["errors"] = stats["errors"] + 1
         /\ pc' = IF idx' < n_paragraphs THEN "paragraphs" ELSE "tables"
C10_Counted ==
  /\ stats["total_paragraphs"] = idx
  /\ pc = "tables" \/ (pc = "done" /\ outcome.success) => idx = n_paragraphs
C10_ErrorsCounted == [][C10_RaisedStep]_vars /\ []C10_Counted
\* the end of a pass in which the first and the last paragraph raised
C10_Witness ==
  /\ pc = "tables"
  /\ idx = n_paragraphs
  /\ idx >= 3
  /\ last.raised = "format"
  /\ stats["errors"] = idx - 1
  /\ stats["total_paragraphs"] = idx

\* C11: format_vkr_document lets no exception escape: every run ends with a
\* (success, statistics) pair returned; when the input file is missing the
\* pair holds success false and no stage has run: no stage entered, margins,
\* Normal font, counters and scan state as they were constructed.
C11_AlwaysReturns ==
  /\ pc = "done" <=> outcome.returned
  /\ pc # "done" => ENABLED Next
  /\ outcome.returned =>
       /\ outcome.success \in BOOLEAN
       /\ outcome.statistics = get_statistics(stats, state)
  /\ outcome.returned /\ input_file = "missing" =>
       /\ ~outcome.success
       /\ stages = <<>>
       /\ margins = << DocumentDefaults.margins >>
       /\ normal_font = DocumentDefaults.normal_font
       /\ stats = StatisticsTracker_init
       /\ state = DocumentState_init
       /\ idx = 0 /\ t_idx = 0
\* the return of a run on a missing input file
C11_Witness ==
  /\ outcome.returned
  /\ input_file = "missing"
  /\ ~outcome.success

\* C12: a failure in the global settings (margins or base-style font), in a
\* paragraph or in a table is counted in errors and does not abort the run:
\* the run reaches SAVE and returns success true; success is false only when
\* loading the input or saving the output failed.
C12_BestEffort ==
  /\ stats["errors"] = failed.items + (IF failed.settings = "none" THEN 0 ELSE 1)
  /\ outcome.returned /\ input_file = "loaded" => stages = STAGES
  /\ outcome.returned => (outcome.success <=> input_file = "loaded" /\ ~failed.save)

\* the stages entered so far are the first stages of the fixed order
IsPrefix(s, full) == Len(s) <= Len(full) /\ s = SubSeq(full, 1, Len(s))
PositionOf(stage) == CHOOSE k \in 1..Len(STAGES) : STAGES[k] = stage
Entered(stage) == Len(stages) >= PositionOf(stage)

\* C13: a successful run goes through LOAD, APPLY_GLOBAL_SETTINGS,
\* SCAN_PARAGRAPHS, SCAN_TABLES, SAVE in this order: the global settings are
\* applied once and before any paragraph is classified or changed, no table is
\* formatted before the last paragraph was processed, and the document is
\* saved only after every table was processed.
C13_StageOrder ==
  /\ IsPrefix(stages, STAGES)
  /\ outcome.success => stages = STAGES
  /\ idx > 0 => Entered("APPLY_GLOBAL_SETTINGS") /\ Entered("SCAN_PARAGRAPHS")
  /\ idx > 0 /\ failed.settings = "none" =>
       /\ \A k \in 1..Len(margins) :
            margins[k] = set_section_margins(requirements.base_formatting.margins_cm)
       /\ normal_font.name = requirements.base_formatting.font_name
  /\ t_idx > 0 => Entered("SCAN_TABLES") /\ idx = n_paragraphs
  /\ Entered("SAVE") => idx = n_paragraphs /\ t_idx = n_tables
\* a successful run over a document with a paragraph and a table
C13_Witness ==
  /\ outcome.success
  /\ stages = STAGES
  /\ idx = n_paragraphs /\ idx > 0
  /\ t_idx = n_tables /\ t_idx > 0

\* C14: with strict_style_mode every paragraph of style "Normal" that is
\* classified as content (not skipped) gets the role regular, whatever its
\* text: no heading pattern, list marker or table/figure/formula pattern
\* decides a role, the paragraph that ends the CONTENTS section included.
C14_StrictNormalIsRegular ==
  /\ strict_style_mode
  /\ classified
  /\ get_paragraph_style_name(last.before) = STYLE_NORMAL
  /\ last.role # "skip"
  => last.role = "regular"

\* the roles the special-section handler gives to a keyword of a section
SpecialSectionRoles ==
  {"references_header", "special_abstract", "special_annotation",
   "special_introduction", "special_conclusion", "special_references"}
\* the paragraph visited last was classified in MAIN by the style-based
\* classifier, bears a Heading 1 style and holds a special-section keyword
C15_SpecialH1 ==
  /\ classified
  /\ use_style_based
  /\ MAIN(last.state_before)
  /\ SV(get_paragraph_style_name(last.before)).is_h1_style
  /\ V(last_text).is_special_h1_section
\* C15: in MAIN a paragraph with a Heading 1 style whose text holds a
\* special-section keyword gets the role of the special-section handler
\* (special_<section> or references_header), unless the text is a numbered
\* chapter, which is h1.
C15_SpecialSectionRouting ==
  C15_SpecialH1 =>
    IF V(last_text).is_numbered_chapter
    THEN last.role = "h1"
    ELSE last.role \in SpecialSectionRoles

\* C16: the requirements are read-only during a run: whatever stage the run
\* is in, and when it has returned, the structure the formatter holds is the
\* structure it was given.
C16_RequirementsReadOnly == requirements = get_default_vkr_requirements
\* a run that went through the global settings, a formatted paragraph, a
\* formatted table and the save, and returned its statistics
C16_Witness ==
  /\ outcome.returned
  /\ outcome.success
  /\ failed.settings = "none"
  /\ idx > 0
  /\ last.role \notin {"none", "skip"}
  /\ t_idx > 0
  /\ ~last_table.raised

\* the margins of the claim, in hundredths of a centimetre
SIDES == {"top", "bottom", "left", "right"}
\* section.top_margin.cm and the like, rounded to hundredths of a centimetre
ReadBackCm(twips) == (FromTwips(twips) + 1800) \div 3600
Distance(a, b) == IF a < b THEN b - a ELSE a - b
\* the margin loop of the global settings has run over the document
C17_MarginsApplied ==
  /\ Entered("APPLY_GLOBAL_SETTINGS")
  /\ failed.settings # "margins"
  /\ requirements.base_formatting.margins_cm =
       [top |-> 200, bottom |-> 200, left |-> 300, right |-> 150]
\* C17 as stated: with the base margins 2.0, 2.0, 3.0 and 1.5 cm, every
\* section reads back exactly these four lengths.
C17_ExactReadBack ==
  C17_MarginsApplied =>
    \A k \in 1..Len(margins), side \in SIDES :
      FromTwips(margins[k][side]) = Cm(requirements.base_formatting.margins_cm[side])
\* C17, amended: every section reads back each of the four margins to within
\* half a twentieth of a point (317 EMU, under 0.001 cm) of the configured
\* length, which is the configured value once rounded to hundredths of a
\* centimetre, for a document of any number of sections.
C17_MarginsReadBack ==
  C17_MarginsApplied =>
    \A k \in 1..Len(margins), side \in SIDES :
      /\ Distance(FromTwips(margins[k][side]),
                  Cm(requirements.base_formatting.margins_cm[side])) <= 317
      /\ ReadBackCm(margins[k][side]) = requirements.base_formatting.margins_cm[side]
\* a document of several sections whose margins were set, none of them to a
\* whole number of twentieths of a point
C17_Witness ==
  /\ C17_MarginsApplied
  /\ Len(margins) > 1
  /\ \A k \in 1..Len(margins) :
       /\ margins[k] # DocumentDefaults.margins
       /\ FromTwips(margins[k].top) # Cm(requirements.base_formatting.margins_cm.top)

\* C18: content classification in MAIN has a fixed priority: a paragraph
\* that contains an image (a drawing, or a placeholder token) is figure_image
\* whatever its text and style; otherwise a table, figure or formula pattern
\* fixes the role whatever the style; only then the style decides, Heading 1
\* before Heading 2, 3, 4 and the list styles.
C18_ContentPriority ==
  classified /\ use_style_based /\ MAIN(last.state_before) =>
    LET tests == V(last_text)
        style == SV(get_paragraph_style_name(last.before))
    IN  IF contains_image(last.before) THEN last.role = "figure_image"
        ELSE IF tests.content_element # "regular" THEN last.role = tests.content_element
        ELSE IF style.is_h1_style THEN last.role \notin {"h2", "h3", "h4", "list"}
        ELSE IF style.is_h2_style THEN last.role = "h2"
        ELSE IF style.is_h3_style THEN last.role = "h3"
        ELSE IF style.is_h4_style THEN last.role = "h4"
        ELSE style.is_list_style => last.role = "list"

\* C19: a non-empty paragraph scanned in TITLE (not in the contents, main
\* content not found) whose text is a main content start moves the scan to
\* MAIN (found_main_content set, in_title_section cleared) and is classified
\* with a role other than skip.
C19_TitleToMain ==
  /\ classified
  /\ last_text # <<>>
  /\ ~last.state_before.in_contents_section
  /\ ~last.state_before.found_main_content
  /\ V(last_text).is_main_content_start
  => /\ state.found_main_content
     /\ ~state.in_title_section
     /\ last.role # "skip"

\* the paragraph visited last was classified outside the contents and its
\* text is title-page or service content
C20_ServiceText ==
  /\ classified
  /\ ~CONTENTS(last.state_before)
  /\ V(last_text).is_title_page_content \/ V(last_text).is_service_content
\* C20 as stated: outside the contents every paragraph whose text is
\* title-page or service content is classified skip and leaves the four
\* flags of the scan state as they were.
C20_ServiceSkipped ==
  C20_ServiceText => last.role = "skip" /\ state = last.state_before
\* C20, amended: outside the contents every paragraph whose text is
\* title-page or service content and is not a contents header is classified
\* skip, in the title section and after the main content was found alike,
\* and leaves the four flags as they were; a contents header is classified
\* skip too but sets in_contents_section.
C20_ServiceSkippedUnlessHeader ==
  C20_ServiceText =>
    /\ last.role = "skip"
    /\ IF V(last_text).is_contents_header
       THEN state = start_contents_section(last.state_before)
       ELSE state = last.state_before
\* title-page text that is no contents header, skipped after the main
\* content was found
C20_Witness ==
  /\ C20_ServiceText
  /\ ~V(last_text).is_contents_header
  /\ MAIN(last.state_before)
  /\ use_style_based
  /\ last.role = "skip"

\* C21: in_references_section is set only once the main content is found:
\* in every scan state the classifier goes through, in_references_section
\* implies found_main_content and not in_title_section.
C21_ReferencesInMain ==
  \A st \in {state, last.state_before} :
    st.in_references_section => st.found_main_content /\ ~st.in_title_section
\* the paragraph visited last set in_references_section
C21_Witness ==
  /\ classified
  /\ last.role = "references_header"
  /\ ~last.state_before.in_references_section
  /\ state.in_references_section

UppercaseRoles == {"h1", "references_header", "special_references"}
\* C23: a formatter operation leaves the text of the paragraph as it was,
\* except for the upper-case transform of h1, references_header and the
\* references title, which leaves the upper-cased text, also when the page
\* break is put in by the fallback (first run cleared, break, text again).
C23_TextKept ==
  bench.applied > 0 =>
    ParagraphText(bench.paragraph) =
      IF bench.role \in UppercaseRoles
      THEN Upper(ParagraphText(bench.previous))
      ELSE ParagraphText(bench.previous)
\* a heading of two runs in mixed case that took its page break by the fallback
C23_Witness ==
  /\ bench.applied = 1
  /\ bench.role = "h1"
  /\ bench.h1_count_before > 0
  /\ bench.previous.page_break_raises
  /\ Len(bench.previous.runs) = 2
  /\ ~bench.paragraph.page_break_before
  /\ bench.paragraph.runs[1].page_break
  /\ ParagraphText(bench.paragraph) # ParagraphText(bench.previous)
  /\ ParagraphText(bench.paragraph) = Upper(ParagraphText(bench.previous))

\* the aliases listed for heading level k, and the role of that level
heading_aliases(k) ==
  CASE k = 1 -> h1_styles [] k = 2 -> h2_styles [] k = 3 -> h3_styles [] OTHER -> h4_styles
heading_role(k) == CASE k = 1 -> "h1" [] k = 2 -> "h2" [] k = 3 -> "h3" [] OTHER -> "h4"
\* the paragraph visited last reached the style-based content classification
\* in MAIN, holds no image and matches no table, figure or formula pattern
C24_PlainContent ==
  /\ classified
  /\ use_style_based
  /\ MAIN(last.state_before)
  /\ last_text # <<>>
  /\ ~V(last_text).is_contents_header
  /\ ~V(last_text).is_title_page_content
  /\ ~V(last_text).is_service_content
  /\ ~contains_image(last.before)
  /\ V(last_text).content_element = "regular"
\* the role of the paragraph visited last had its style been named alias
C24_RoleWithStyle(alias) ==
  classify_paragraph_by_style(last.state_before, [last.before EXCEPT !.style = alias],
                              last_text, V(last_text), SV(alias), strict_style_mode).role
\* C24: a content paragraph in MAIN without image and without table, figure
\* or formula pattern whose style name is exactly an alias listed for heading
\* level k is classified at level k: hk, or for k = 1 the role the special
\* section route gives when the text names a special section.
C24_AliasLevel ==
  C24_PlainContent =>
    \A k \in 1..4 : \A a \in 1..Len(heading_aliases(k)) :
      LET role == C24_RoleWithStyle(heading_aliases(k)[a])
      IN  IF k = 1 /\ V(last_text).is_special_h1_section /\ ~V(last_text).is_numbered_chapter
          THEN role = classify_special_sections(last.state_before, V(last_text)).role
          ELSE role = heading_role(k)

\* C25: a pattern-based and a style-based classifier given the same
\* paragraph texts (any styles) agree after every paragraph on
\* in_title_section, in_contents_section and found_main_content, and return
\* skip for exactly the same paragraphs.
C25_SameScan ==
  /\ pair.pattern.state.in_title_section = pair.style.state.in_title_section
  /\ pair.pattern.state.in_contents_section = pair.style.state.in_contents_section
  /\ pair.pattern.state.found_main_content = pair.style.state.found_main_content
  /\ pair.pattern.role = "skip" <=> pair.style.role = "skip"
\* both have left the contents section, and they differ in everything else:
\* in the role of the paragraph and in in_references_section
C25_Witness ==
  /\ pair.classified = MaxPairParas
  /\ MAIN(pair.pattern.state)
  /\ pair.pattern.role \notin {"skip", pair.style.role}
  /\ pair.style.state.in_references_section
  /\ ~pair.pattern.state.in_references_section

\* C26: every format_document call starts from fresh state, a second call on
\* the same VKRFormatter too: when a call starts the scan state is the
\* initial one (in_title_section only), h1_count is 0 and every counter of
\* the statistics is 0.
C26_FreshRun ==
  pc = "constructed" =>
    /\ state = DocumentState_init
    /\ h1_count = 0
    /\ stats = StatisticsTracker_init

\* what the table pass has counted so far
C27_TablesCounted == stats["tables_formatted"] + failed.tables
C28_RoleCounters(counters) ==
  DOMAIN counters \ {"total_paragraphs", "errors", "tables_formatted", "table_content_formatted"}
C28_Count(counters, k) == IF k \in DOMAIN counters THEN counters[k] ELSE 0
RECURSIVE C28_Sum(_, _)
C28_Sum(counters, keys) ==
  IF keys = {} THEN 0
  ELSE LET k == CHOOSE x \in keys : TRUE
       IN  counters[k] + C28_Sum(counters, keys \ {k})
\* the counters a step has changed
C28_Changed == {k \in DOMAIN stats' : C28_Count(stats', k) # C28_Count(stats, k)}
\* C28: each paragraph of the paragraph pass adds one to total_paragraphs and
\* one to exactly one other counter: skipped_paragraphs, the counter of its
\* role, or errors; a paragraph whose formatter raised adds to errors and to
\* no role counter.  So total_paragraphs is skipped_paragraphs plus the role
\* counters plus the errors raised in the paragraph pass.
C28_Accounting ==
  /\ [](/\ stats["total_paragraphs"] = idx
        /\ stats["total_paragraphs"] =
             C28_Sum(stats, C28_RoleCounters(stats)) + (failed.items - failed.tables))
  /\ [][idx' # idx =>
          /\ DOMAIN stats \subseteq DOMAIN stats'
          /\ \A k \in C28_Changed : C28_Count(stats', k) = C28_Count(stats, k) + 1
          /\ "total_paragraphs" \in C28_Changed
          /\ Cardinality(C28_Changed) = 2
          /\ IF last'.raised # "none"
             THEN "errors" \in C28_Changed
             ELSE C28_Changed \ {"total_paragraphs"} \subseteq C28_RoleCounters(stats')]_vars
\* the paragraph pass is over: a paragraph was counted under a name the
\* tracker did not start with, one was skipped, and the formatter of one raised
C28_Witness ==
  /\ pc = "tables"
  /\ idx >= 3
  /\ "formula_numbering_formatted" \in DOMAIN stats
  /\ stats["errors"] = 1
  /\ last.raised = "format"
  /\ stats["regular_formatted"] + stats["h1_formatted"] + stats["skipped_paragraphs"] > 0

\* C29: h1_count is the number of paragraphs the formatter has classified h1
\* so far: a paragraph classified h1 adds one to it before format_h1 is
\* called, whether format_h1 raises or not, and no other paragraph changes
\* it (special sections and the references header do not); the page break of
\* an h1 therefore depends only on how many paragraphs before it were
\* classified h1.
C29_H1Counter ==
  /\ [](/\ h1_count = h1_seen
        /\ last.h1_count_before = last.h1_seen_before
        /\ classified /\ last.role = "h1" /\ last.raised = "none" =>
             last.after.page_break_before =
               (last.before.page_break_before \/ last.h1_seen_before > 0))
  /\ [][idx' # idx =>
          h1_count' = h1_count + (IF last'.role = "h1" THEN 1 ELSE 0)]_vars
\* an h1 formatted with a page break after an h1 whose formatting raised and
\* a special section that was not counted
C29_Witness ==
  /\ classified
  /\ last.role = "h1"
  /\ last.raised = "none"
  /\ h1_count = 2
  /\ stats["h1_formatted"] = 1
  /\ stats["errors"] = 1
  /\ stats["special_introduction_formatted"] = 1
  /\ ~last.before.page_break_before
  /\ last.after.page_break_before

\* no paragraph of the document can be a contents header
C30_NoContentsHeader ==
  \A p \in Vocabularies[vocabulary] : ~V(Strip(ParagraphText(p))).is_contents_header
\* C30: in the statistics a run returns, contents_section_detected is
\* (found_main_content and not in_contents_section) and title_pages_detected
\* is 1 exactly when found_main_content, so contents_section_detected is true
\* for a run that found the main content even if the document has no contents
\* header; main_content_found and references_section_detected are the
\* flags of the final scan state.
C30_FinalStatistics ==
  outcome.returned =>
    /\ outcome.statistics.contents_section_detected =
         (state.found_main_content /\ ~state.in_contents_section)
    /\ outcome.statistics.title_pages_detected \in {0, 1}
    /\ outcome.statistics.title_pages_detected = 1 <=> state.found_main_content
    /\ outcome.statistics.main_content_found = state.found_main_content
    /\ outcome.statistics.references_section_detected = state.in_references_section
    /\ C30_NoContentsHeader /\ state.found_main_content =>
         outcome.statistics.contents_section_detected
\* a run on a document without contents header that found the main content:
\* the contents section is reported as detected
C30_Witness ==
  /\ outcome.returned
  /\ outcome.success
  /\ idx >= 2
  /\ C30_NoContentsHeader
  /\ outcome.statistics.main_content_found
  /\ outcome.statistics.contents_section_detected
  /\ outcome.statistics.title_pages_detected = 1

====
